---- MODULE Spec2Model ----
(***************************************************************************)
(* Ticket lifecycle of the middleman bot: src/bot.py (handlers) over       *)
(* src/database.py (store).  Every handler is a coroutine; it is cut into  *)
(* one action per stretch between the awaits at which the store is read or *)
(* written, so that handlers interleave exactly where asyncio lets them.   *)
(***************************************************************************)
EXTENDS Integers, Sequences, FiniteSets, Bags, TLC

\* ------------------------------------------------------------------ bounds
MaxRequests == 2
MaxClaimRequests == 2
MaxConfirmRequests == 4
MaxTicks == 1
MaxRoleChanges == 1
MaxCloseRequests == 2
MaxClosedRequests == 2
MaxTierRequests == 1
MaxStoreCalls == 3
MaxAuditRequests == 2
MaxUnclaimRequests == 3
MaxFaultRequests == 3
MaxLiveRequests == 2
MaxPromptRequests == 3
MaxFrameRequests == 2
MaxRemoveRequests == 3
MaxRetries == 3
MaxApiRequests == 2

\* --------------------------------------------------------------- constants
\* SQL NULL / Python None of an id column (claimed_by, closed_at): falsy.
NULL == 0
\* has_middleman_role: seconds a cached role result is served.
CacheTTL == 30
\* ConfirmationView.confirm_button: `if count >= 2`.
Quorum == 2

\* TIER_HIERARCHY
TIER_HIERARCHY == [trial |-> 1, middleman |-> 2, pro |-> 3, head |-> 4, owner |-> 5]
\* TIER_ROLES: tier -> role id (the ids come from the environment; distinct)
TIER_ROLES == [trial |-> 11, middleman |-> 12, pro |-> 13, head |-> 14, owner |-> 15]
\* dict iteration order of TIER_ROLES.items()
TierOrder == <<"trial", "middleman", "pro", "head", "owner">>
Tiers == {TierOrder[i] : i \in 1..Len(TierOrder)}
\* guild.default_role, held by every member and no trust role
EveryoneRole == 10

Kinds == {"mm", "pvp"}

\* ----------------------------------------------------------- the members
\* Requester 42, middlemen 7 and 8 (8 is also a guild administrator).
Members == {42, 7, 8}
Admins == {8}
InitRoles == (42 :> {EveryoneRole}) @@ (7 :> {EveryoneRole, TIER_ROLES.pro})
             @@ (8 :> {EveryoneRole, TIER_ROLES.middleman, TIER_ROLES.head})
\* Member updates of the model: middleman 7 is demoted to trial or loses every
\* trust role.
UpdatedMembers == {7}
RoleChoices == {{EveryoneRole}, {EveryoneRole, TIER_ROLES.trial}}
\* Inputs of the creation modal <<requester, trader, tier, kind>>: one key and
\* the keys that differ from it in the requester, in the case of the trader's
\* name, in the tier, and in the kind of ticket.
CreateInputs == {<<42, "9cv", "middleman", "mm">>, <<7, "9cv", "middleman", "mm">>,
                 <<42, "9CV", "middleman", "mm">>, <<42, "9cv", "head", "mm">>,
                 <<42, "9cv", "middleman", "pvp">>}
\* A channel that is no ticket channel (slash commands can be typed anywhere).
Lobby == 100

VARIABLES
  tickets,        \* kind -> rows of middleman_tickets / pvp_tickets, in insertion order
  ticket_counter, \* bot.py ticket_counter
  channels,       \* live ticket channels of the guild
  overwrites,     \* member permission overwrites of the channels, <<channel, member>>
  next_channel,   \* the id the platform gives the next channel
  confirmations,  \* rows of ticket_confirmations
  proofs,         \* rows of mm_proofs, in insertion order
  views,          \* the ConfirmationView objects, in creation order
  quorum_msgs,    \* channel -> number of "Both users confirmed" messages sent
  logs,           \* rows of ticket_logs, in insertion order
  tasks,          \* bag of db.log_action coroutines started with create_task
  handlers,       \* bag of the suspended handler coroutines
  responses,      \* bag of the outcomes the requests were answered with
  roles,          \* member -> role ids held (member.roles)
  role_cache,     \* bot.py _role_cache
  now,            \* datetime.utcnow().timestamp(), seconds
  role_changes,   \* number of member updates so far
  budget          \* requests the model still admits

vars == <<tickets, ticket_counter, channels, overwrites, next_channel, confirmations, proofs,
          views,
          quorum_msgs, logs, tasks, handlers, responses, roles, role_cache, now,
          role_changes, budget>>

NoTicket == [ticket_id |-> NULL]
\* a coroutine of handler `op` suspended before step `pc`
Running(op, pc, user, c, ticket_type, ticket, arg) ==
  [op |-> op, pc |-> pc, user |-> user, channel |-> c, ticket_type |-> ticket_type,
   ticket |-> ticket, arg |-> arg]

\* ------------------------------------------------------------- tier model
RECURSIVE TierScan(_, _, _, _)
\* the loop of get_member_tier over TIER_ROLES.items(), from index i
TierScan(user_role_ids, i, highest_tier, highest_rank) ==
  IF i > Len(TierOrder) THEN highest_tier
  ELSE LET tier == TierOrder[i] IN
       IF TIER_ROLES[tier] \in user_role_ids /\ TIER_HIERARCHY[tier] > highest_rank
       THEN TierScan(user_role_ids, i + 1, tier, TIER_HIERARCHY[tier])
       ELSE TierScan(user_role_ids, i + 1, highest_tier, highest_rank)

\* get_member_tier returning the first tier of TIER_ROLES the member holds
get_member_tier_first(user_role_ids) ==
  LET held == {i \in 1..Len(TierOrder) : TIER_ROLES[TierOrder[i]] \in user_role_ids} IN
  IF held = {} THEN "none"
  ELSE TierOrder[CHOOSE i \in held : \A j \in held : i <= j]

\* get_member_tier(member): highest tier held, or "none" (Python None)
get_member_tier(user_role_ids) == TierScan(user_role_ids, 1, "none", 0)

\* can_access_tier with `>` in place of `>=`
can_access_tier_strict(user_role_ids, ticket_tier) ==
  LET member_tier == get_member_tier(user_role_ids) IN
  IF member_tier = "none" THEN FALSE
  ELSE TIER_HIERARCHY[member_tier] > TIER_HIERARCHY[ticket_tier]

\* can_access_tier(member, ticket_tier)
can_access_tier(user_role_ids, ticket_tier) ==
  LET member_tier == get_member_tier(user_role_ids) IN
  IF member_tier = "none" THEN FALSE
  ELSE TIER_HIERARCHY[member_tier] >= TIER_HIERARCHY[ticket_tier]

\* is_admin(member)
is_admin(user) == user \in Admins

\* has_middleman_role: the cached result is served while it is younger than CacheTTL
RoleCacheFresh(user) == now - role_cache[user].time < CacheTTL
HoldsTrustRole(user_role_ids) == \E tier \in Tiers : TIER_ROLES[tier] \in user_role_ids
has_middleman_role(user) ==
  IF RoleCacheFresh(user) THEN role_cache[user].result ELSE HoldsTrustRole(roles[user])
\* the cache after a call of has_middleman_role(user)
RoleCacheAfter(user) ==
  IF RoleCacheFresh(user) THEN role_cache
  ELSE [role_cache EXCEPT ![user] = [result |-> HoldsTrustRole(roles[user]), time |-> now]]

\* ------------------------------------------------------------------ store
RECURSIVE FirstRow(_, _, _)
\* fetchrow: the first row from index i on whose channel_id is c, or NoTicket
FirstRow(rows, c, i) ==
  IF i > Len(rows) THEN NoTicket
  ELSE IF rows[i].channel_id = c THEN rows[i] ELSE FirstRow(rows, c, i + 1)

\* Database.get_mm_ticket_by_channel / get_pvp_ticket_by_channel
get_ticket_by_channel(kind, c) == FirstRow(tickets[kind], c, 1)

\* `ticket = mm_ticket or pvp_ticket; ticket_type = 'mm' if mm_ticket else 'pvp'`
LookupType(c) == IF get_ticket_by_channel("mm", c) # NoTicket THEN "mm" ELSE "pvp"
Lookup(c) == get_ticket_by_channel(LookupType(c), c)

\* Database.get_all_mm_tickets_count / get_all_pvp_tickets_count
get_all_tickets_count(kind) == Len(tickets[kind])

\* Database.get_mm_ticket_by_id / get_pvp_ticket_by_id
get_ticket_by_id(kind, ticket_id) ==
  IF \E i \in 1..Len(tickets[kind]) : tickets[kind][i].ticket_id = ticket_id
  THEN tickets[kind][CHOOSE i \in 1..Len(tickets[kind]) : tickets[kind][i].ticket_id = ticket_id]
  ELSE NoTicket

\* the SQL function check_duplicate_mm_ticket / check_duplicate_pvp_ticket
check_duplicate_ticket(kind, requester_id, username, tier) ==
  \E i \in 1..Len(tickets[kind]) :
     /\ tickets[kind][i].status = "open"
     /\ tickets[kind][i].requester_id = requester_id
     /\ tickets[kind][i].username = username
     /\ tickets[kind][i].tier = tier

\* claim_ticket whose UPDATE has no WHERE clause
claim_ticket_all(rows, c, user_id) ==
  [i \in 1..Len(rows) |-> [rows[i] EXCEPT !.claimed_by = user_id]]

\* UPDATE ... SET claimed_by = $1 WHERE channel_id = $2
claim_ticket(rows, c, user_id) ==
  [i \in 1..Len(rows) |->
     IF rows[i].channel_id = c THEN [rows[i] EXCEPT !.claimed_by = user_id] ELSE rows[i]]

\* unclaim_ticket whose UPDATE matches no row
unclaim_ticket_keeps(rows, c) == rows

\* unclaim_ticket that also puts the ticket back to status 'open'
unclaim_ticket_reopens(rows, c) ==
  [i \in 1..Len(rows) |->
     IF rows[i].channel_id = c
     THEN [rows[i] EXCEPT !.claimed_by = NULL, !.status = "open"] ELSE rows[i]]

\* UPDATE ... SET claimed_by = NULL WHERE channel_id = $1
unclaim_ticket(rows, c) ==
  [i \in 1..Len(rows) |->
     IF rows[i].channel_id = c THEN [rows[i] EXCEPT !.claimed_by = NULL] ELSE rows[i]]

\* UPDATE ... SET status = 'closed', closed_at = NOW() WHERE channel_id = $1
close_ticket(rows, c) ==
  [i \in 1..Len(rows) |->
     IF rows[i].channel_id = c
     THEN [rows[i] EXCEPT !.status = "closed", !.closed_at = now] ELSE rows[i]]

\* INSERT INTO middleman_tickets / pvp_tickets ... RETURNING ticket_id
NewTicketId(rows) == Len(rows) + 1
create_ticket(rows, c, requester_id, username, tier) ==
  Append(rows, [ticket_id |-> NewTicketId(rows), channel_id |-> c,
                requester_id |-> requester_id, username |-> username, tier |-> tier,
                claimed_by |-> NULL, status |-> "open", closed_at |-> NULL])

\* the row log_action inserts
LogRow(ticket_id, ticket_type, action, user_id) ==
  [ticket_id |-> ticket_id, ticket_type |-> ticket_type, action |-> action,
   user_id |-> user_id]

\* ------------------------------------------------------------ bookkeeping
\* a request may arrive; it uses up one unit of the budget
CanStart == budget > 0 /\ budget' = budget - 1
\* a handler suspends for the first time, moves on to its next await, returns
Spawn(x) == handlers (+) SetToBag({x})
Step(r, x) == (handlers (-) SetToBag({r})) (+) SetToBag({x})
Finish(r) == handlers (-) SetToBag({r})

Outcome(op, user, c, result, detail) ==
  [op |-> op, user |-> user, channel |-> c, result |-> result, detail |-> detail]
Respond(op, user, c, result, detail) ==
  responses' = responses (+) SetToBag({Outcome(op, user, c, result, detail)})

\* ------------------------------------------------------------------- Init
StartTime == CacheTTL
EmptyCache == [m \in Members |-> [result |-> FALSE, time |-> 0]]

\* What an earlier run of the bot has left in the database when the bot
\* starts (init_db creates nothing and deletes nothing): no ticket, or one mm
\* ticket of requester 42 that middleman 7 closed; its channel is deleted.
StoredTickets ==
  {<<>>, <<[ticket_id |-> 1, channel_id |-> 1, requester_id |-> 42, username |-> "9cv",
            tier |-> "middleman", claimed_by |-> NULL, status |-> "closed",
            closed_at |-> StartTime - 1]>>}
StoredLogs(rows) ==
  IF rows = <<>> THEN <<>>
  ELSE <<LogRow(1, "mm", "created", 42), LogRow(1, "mm", "closed", 7)>>

Init ==
  /\ \E rows \in StoredTickets :
        /\ tickets = [k \in Kinds |-> IF k = "mm" THEN rows ELSE <<>>]
        /\ next_channel = Len(rows) + 1
        /\ logs = StoredLogs(rows)
  /\ ticket_counter = [k \in Kinds |-> 0]
  /\ channels = {}
  /\ confirmations = <<>>
  /\ proofs = <<>>
  /\ views = <<>>
  /\ quorum_msgs = EmptyBag
  /\ tasks = EmptyBag
  /\ handlers = EmptyBag
  /\ responses = EmptyBag
  /\ roles = InitRoles
  /\ role_cache = EmptyCache
  /\ now = StartTime
  /\ role_changes = 0
  /\ overwrites = channels \X {42}
  /\ budget = MaxRequests

\* ----------------------------------------------------------- CreateTicket
\* on_submit with `ticket_counter[kind] += 1` moved above the duplicate check
on_submit_counts_first(user, kind, trader, tier) ==
  /\ CanStart
  /\ ticket_counter' = [ticket_counter EXCEPT ![kind] = @ + 1]
  /\ IF check_duplicate_ticket(kind, user, trader, tier)
     THEN /\ Respond("create", user, Lobby, "DuplicateExists", NULL)
          /\ UNCHANGED handlers
     ELSE /\ handlers' = Spawn(
                Running("create", "provision", user, NULL, kind, NoTicket, <<trader, tier>>))
          /\ UNCHANGED responses
  /\ UNCHANGED <<overwrites, proofs, tickets, channels, next_channel, confirmations, views,
                 quorum_msgs, logs, tasks, roles, role_cache, now, role_changes>>

\* on_submit passing the tier of the key as a constant to the duplicate check
on_submit_any_tier(user, kind, trader, tier) ==
  /\ CanStart
  /\ IF check_duplicate_ticket(kind, user, trader, "middleman")
     THEN /\ Respond("create", user, Lobby, "DuplicateExists", NULL)
          /\ UNCHANGED handlers
     ELSE /\ handlers' = Spawn(
                Running("create", "provision", user, NULL, kind, NoTicket, <<trader, tier>>))
          /\ UNCHANGED responses
  /\ UNCHANGED <<overwrites, proofs, tickets, ticket_counter, channels, next_channel,
                 confirmations, views, quorum_msgs, logs, tasks, roles, role_cache, now,
                 role_changes>>

\* MMDetailsModal.on_submit / PvPDetailsModal.on_submit: the duplicate check
on_submit(user, kind, trader, tier) ==
  /\ CanStart
  /\ IF check_duplicate_ticket(kind, user, trader, tier)
     THEN /\ Respond("create", user, Lobby, "DuplicateExists", NULL)
          /\ UNCHANGED handlers
     ELSE /\ handlers' = Spawn(
                Running("create", "provision", user, NULL, kind, NoTicket, <<trader, tier>>))
          /\ UNCHANGED responses
  /\ UNCHANGED <<overwrites, proofs, tickets, ticket_counter, channels, next_channel,
                 confirmations, views, quorum_msgs, logs, tasks, roles, role_cache, now,
                 role_changes>>

\* on_submit: ticket_counter[kind] += 1, then category.create_text_channel
on_submit_provision(r) ==
  /\ r.op = "create" /\ r.pc = "provision"
  /\ ticket_counter' = [ticket_counter EXCEPT ![r.ticket_type] = @ + 1]
  /\ channels' = channels \cup {next_channel}
  /\ overwrites' = overwrites \cup {<<next_channel, r.user>>}
  /\ next_channel' = next_channel + 1
  /\ handlers' = Step(r, [r EXCEPT !.pc = "insert", !.channel = next_channel])
  /\ UNCHANGED <<proofs, tickets, confirmations, views, quorum_msgs, logs, tasks, responses,
                 roles, role_cache, now, role_changes, budget>>

\* on_submit that numbers the ticket with the process-local ticket_counter
\* instead of the key the store assigns
on_submit_insert_counter(r) ==
  LET rows == tickets[r.ticket_type]
      row == [create_ticket(rows, r.channel, r.user, r.arg[1], r.arg[2])[Len(rows) + 1]
                EXCEPT !.ticket_id = ticket_counter[r.ticket_type]]
  IN
  /\ r.op = "create" /\ r.pc = "insert"
  /\ tickets' = [tickets EXCEPT ![r.ticket_type] = Append(rows, row)]
  /\ handlers' = Step(r, [r EXCEPT !.pc = "announce", !.ticket = row])
  /\ Respond("create", r.user, r.channel, "Created", row.ticket_id)
  /\ UNCHANGED <<overwrites, proofs, ticket_counter, channels, next_channel, confirmations, views,
                 quorum_msgs, logs, tasks, roles, role_cache, now, role_changes, budget>>

\* on_submit: db.create_mm_ticket / db.create_pvp_ticket
on_submit_insert(r) ==
  LET rows == tickets[r.ticket_type]
      after == create_ticket(rows, r.channel, r.user, r.arg[1], r.arg[2])
  IN
  /\ r.op = "create" /\ r.pc = "insert"
  /\ tickets' = [tickets EXCEPT ![r.ticket_type] = after]
  /\ handlers' = Step(r, [r EXCEPT !.pc = "announce", !.ticket = after[Len(after)]])
  /\ Respond("create", r.user, r.channel, "Created", after[Len(after)].ticket_id)
  /\ UNCHANGED <<overwrites, proofs, ticket_counter, channels, next_channel, confirmations, views,
                 quorum_msgs, logs, tasks, roles, role_cache, now, role_changes, budget>>

\* on_submit: the ticket message with its TicketActionsView is posted and
\* create_task(db.log_action(ticket_id, kind, 'created', user)) is started
on_submit_announce(r) ==
  /\ r.op = "create" /\ r.pc = "announce"
  /\ r.channel \in channels
  /\ tasks' = tasks (+) SetToBag({LogRow(r.ticket.ticket_id, r.ticket_type, "created", r.user)})
  /\ handlers' = Finish(r)
  /\ UNCHANGED <<overwrites, proofs, tickets, ticket_counter, channels, next_channel,
                 confirmations, views, quorum_msgs, logs, responses, roles, role_cache, now,
                 role_changes, budget>>

\* a db.log_action coroutine started with create_task runs
log_action_task(e) ==
  /\ BagIn(e, tasks)
  /\ logs' = Append(logs, e)
  /\ tasks' = tasks (-) SetToBag({e})
  /\ UNCHANGED <<overwrites, proofs, tickets, ticket_counter, channels, next_channel,
                 confirmations, views, quorum_msgs, handlers, responses, roles, role_cache, now,
                 role_changes, budget>>

\* the ticket message (and its Claim button) of channel c has been posted
ButtonPosted(kind, c) ==
  /\ c \in channels
  /\ get_ticket_by_channel(kind, c) # NoTicket
  /\ ~ \E r \in BagToSet(handlers) : r.op = "create" /\ r.channel = c

\* ------------------------------------------------------------------ Claim
\* ClaimDecide without the can_access_tier check: the (cached) answer of
\* has_middleman_role alone admits the claim
ClaimDecideByCache(op, user, c, ticket_type, ticket) ==
  IF ticket = NoTicket
  THEN /\ Respond(op, user, c, "NotFound", NULL)
       /\ UNCHANGED <<handlers, role_cache>>
  ELSE
    /\ role_cache' = RoleCacheAfter(user)
    /\ IF ~has_middleman_role(user)
       THEN Respond(op, user, c, "Forbidden", NULL) /\ UNCHANGED handlers
       ELSE IF ticket.claimed_by # NULL
       THEN Respond(op, user, c, "AlreadyClaimed", ticket.claimed_by) /\ UNCHANGED handlers
       ELSE /\ handlers' = Spawn(
                  Running(op, "write", user, c, ticket_type, ticket, <<>>))
            /\ UNCHANGED responses

\* The checks claim_button and claim_slash run on the ticket they have read:
\* not found, no trust role (cached), tier too low, already claimed; a
\* request that passes them is suspended before its UPDATE.
ClaimDecide(op, user, c, ticket_type, ticket) ==
  IF ticket = NoTicket
  THEN /\ Respond(op, user, c, "NotFound", NULL)
       /\ UNCHANGED <<handlers, role_cache>>
  ELSE
    /\ role_cache' = RoleCacheAfter(user)
    /\ IF ~has_middleman_role(user)
       THEN Respond(op, user, c, "Forbidden", NULL) /\ UNCHANGED handlers
       ELSE IF ~can_access_tier(roles[user], ticket.tier)
       THEN Respond(op, user, c, "Forbidden", NULL) /\ UNCHANGED handlers
       ELSE IF ticket.claimed_by # NULL
       THEN Respond(op, user, c, "AlreadyClaimed", ticket.claimed_by) /\ UNCHANGED handlers
       ELSE /\ handlers' = Spawn(
                  Running(op, "write", user, c, ticket_type, ticket, <<>>))
            /\ UNCHANGED responses

\* TicketActionsView.claim_button, up to its UPDATE
claim_button(user, c, ticket_type) ==
  /\ CanStart
  /\ ButtonPosted(ticket_type, c)
  /\ ClaimDecide("claim_button", user, c, ticket_type, get_ticket_by_channel(ticket_type, c))
  /\ UNCHANGED <<overwrites, proofs, tickets, ticket_counter, channels, next_channel,
                 confirmations, views, quorum_msgs, logs, tasks, roles, now, role_changes>>

\* claim_slash, up to its UPDATE
claim_slash(user, c) ==
  /\ CanStart
  /\ c \in channels \cup {Lobby}
  /\ ClaimDecide("claim_slash", user, c, LookupType(c), Lookup(c))
  /\ UNCHANGED <<overwrites, proofs, tickets, ticket_counter, channels, next_channel,
                 confirmations, views, quorum_msgs, logs, tasks, roles, now, role_changes>>

\* claim_button / claim_slash: db.claim_mm_ticket / db.claim_pvp_ticket
claim_write(r) ==
  /\ r.op \in {"claim_button", "claim_slash"} /\ r.pc = "write"
  /\ tickets' = [tickets EXCEPT ![r.ticket_type] = claim_ticket(@, r.channel, r.user)]
  /\ Respond(r.op, r.user, r.channel, "Claimed", r.user)
  /\ handlers' = Step(r, [r EXCEPT !.pc = "log"])
  /\ UNCHANGED <<overwrites, proofs, ticket_counter, channels, next_channel, confirmations, views,
                 quorum_msgs, logs, tasks, roles, role_cache, now, role_changes, budget>>

\* claim_button: create_task(db.log_action(.. "claimed" ..));
\* claim_slash and unclaim_slash: await db.log_action(..)
handler_log(r) ==
  LET e == LogRow(r.ticket.ticket_id, r.ticket_type,
                  IF r.op = "unclaim" THEN "unclaimed" ELSE "claimed", r.user)
  IN
  /\ r.pc = "log" /\ r.op \in {"claim_button", "claim_slash", "unclaim"}
  /\ IF r.op = "claim_button"
     THEN tasks' = tasks (+) SetToBag({e}) /\ UNCHANGED logs
     ELSE logs' = Append(logs, e) /\ UNCHANGED tasks
  /\ handlers' = Finish(r)
  /\ UNCHANGED <<overwrites, proofs, tickets, ticket_counter, channels, next_channel,
                 confirmations, views, quorum_msgs, responses, roles, role_cache, now,
                 role_changes, budget>>

\* ---------------------------------------------------------------- Unclaim
\* unclaim_slash, up to its UPDATE
unclaim_slash(user, c) ==
  LET ticket == Lookup(c) IN
  /\ CanStart
  /\ c \in channels \cup {Lobby}
  /\ IF ticket = NoTicket
     THEN Respond("unclaim", user, c, "NotFound", NULL) /\ UNCHANGED handlers
     ELSE IF ticket.claimed_by = NULL
     THEN Respond("unclaim", user, c, "NotClaimed", NULL) /\ UNCHANGED handlers
     ELSE IF ticket.claimed_by # user /\ ~is_admin(user)
     THEN Respond("unclaim", user, c, "Forbidden", NULL) /\ UNCHANGED handlers
     ELSE /\ handlers' = Spawn(
                Running("unclaim", "write", user, c, LookupType(c), ticket, <<>>))
          /\ UNCHANGED responses
  /\ UNCHANGED <<overwrites, proofs, tickets, ticket_counter, channels, next_channel,
                 confirmations, views, quorum_msgs, logs, tasks, roles, role_cache, now,
                 role_changes>>

\* unclaim_slash: db.unclaim_mm_ticket / db.unclaim_pvp_ticket
unclaim_write(r) ==
  /\ r.op = "unclaim" /\ r.pc = "write"
  /\ tickets' = [tickets EXCEPT ![r.ticket_type] = unclaim_ticket(@, r.channel)]
  /\ Respond("unclaim", r.user, r.channel, "Unclaimed", NULL)
  /\ handlers' = Step(r, [r EXCEPT !.pc = "log"])
  /\ UNCHANGED <<overwrites, proofs, ticket_counter, channels, next_channel, confirmations, views,
                 quorum_msgs, logs, tasks, roles, role_cache, now, role_changes, budget>>

\* ------------------------------------------------------------------ Close
\* close_slash, up to its UPDATE
close_slash(user, c) ==
  LET ticket == Lookup(c) IN
  /\ CanStart
  /\ c \in channels \cup {Lobby}
  /\ IF ticket = NoTicket
     THEN Respond("close", user, c, "NotFound", NULL) /\ UNCHANGED <<handlers, role_cache>>
     ELSE /\ role_cache' = RoleCacheAfter(user)
          /\ IF ~has_middleman_role(user)
             THEN Respond("close", user, c, "Forbidden", NULL) /\ UNCHANGED handlers
             ELSE /\ handlers' = Spawn(
                        Running("close", "write", user, c, LookupType(c), ticket, <<>>))
                  /\ UNCHANGED responses
  /\ UNCHANGED <<overwrites, proofs, tickets, ticket_counter, channels, next_channel,
                 confirmations, views, quorum_msgs, logs, tasks, roles, now, role_changes>>

\* close_slash that closes by DELETE of the ticket's row
close_write_deletes(r) ==
  /\ r.op = "close" /\ r.pc = "write"
  /\ tickets' = [tickets EXCEPT ![r.ticket_type] =
                   SelectSeq(@, LAMBDA t : t.channel_id # r.channel)]
  /\ tasks' = tasks (+) SetToBag({LogRow(r.ticket.ticket_id, r.ticket_type, "closed", r.user)})
  /\ Respond("close", r.user, r.channel, "Closed", NULL)
  /\ handlers' = Step(r, [r EXCEPT !.pc = "delete"])
  /\ UNCHANGED <<overwrites, proofs, ticket_counter, channels, next_channel, confirmations, views,
                 quorum_msgs, logs, roles, role_cache, now, role_changes, budget>>

\* close_slash: db.close_mm_ticket / db.close_pvp_ticket, then
\* create_task(db.log_action(.. "closed" ..))
close_write(r) ==
  /\ r.op = "close" /\ r.pc = "write"
  /\ tickets' = [tickets EXCEPT ![r.ticket_type] = close_ticket(@, r.channel)]
  /\ tasks' = tasks (+) SetToBag({LogRow(r.ticket.ticket_id, r.ticket_type, "closed", r.user)})
  /\ Respond("close", r.user, r.channel, "Closed", NULL)
  /\ handlers' = Step(r, [r EXCEPT !.pc = "delete"])
  /\ UNCHANGED <<overwrites, proofs, ticket_counter, channels, next_channel, confirmations, views,
                 quorum_msgs, logs, roles, role_cache, now, role_changes, budget>>

\* close_slash: asyncio.sleep(1), then interaction.channel.delete
close_delete(r) ==
  /\ r.op = "close" /\ r.pc = "delete"
  /\ channels' = channels \ {r.channel}
  /\ overwrites' = {o \in overwrites : o[1] # r.channel}
  /\ handlers' = Finish(r)
  /\ UNCHANGED <<proofs, tickets, ticket_counter, next_channel, confirmations, views,
                 quorum_msgs, logs, tasks, responses, roles, role_cache, now, role_changes, budget>>

\* ---------------------------------------------------------------- Confirm
\* confirm_slash up to its second await: get_mm_ticket_by_channel has
\* answered, the handler is suspended in get_pvp_ticket_by_channel
confirm_slash(user, c) ==
  /\ CanStart
  /\ c \in channels \cup {Lobby}
  /\ handlers' = Spawn(Running("confirm_slash", "start", user, c, "mm",
                               get_ticket_by_channel("mm", c), NULL))
  /\ UNCHANGED <<overwrites, proofs, tickets, ticket_counter, channels, next_channel,
                 confirmations, views, quorum_msgs, logs, tasks, responses, roles, role_cache,
                 now, role_changes>>

\* confirm_slash from the answer of get_pvp_ticket_by_channel on: the checks
\* on `mm_ticket or pvp_ticket`, then a new ConfirmationView for the ticket
\* is posted in the channel (safe_send_message raises when the channel is gone)
confirm_start(r) ==
  LET ticket_type == IF r.ticket # NoTicket THEN "mm" ELSE "pvp"
      ticket == IF r.ticket # NoTicket THEN r.ticket
                ELSE get_ticket_by_channel("pvp", r.channel) IN
  /\ r.op = "confirm_slash" /\ r.pc = "start"
  /\ IF ticket = NoTicket
     THEN Respond("confirm_slash", r.user, r.channel, "NotFound", NULL) /\ UNCHANGED views
     ELSE IF ~(is_admin(r.user) \/ ticket.claimed_by = r.user)
     THEN Respond("confirm_slash", r.user, r.channel, "Forbidden", NULL) /\ UNCHANGED views
     ELSE IF r.channel \notin channels
     THEN Respond("confirm_slash", r.user, r.channel, "Failed", NULL) /\ UNCHANGED views
     ELSE /\ views' = Append(views, [ticket_id |-> ticket.ticket_id,
                                      ticket_type |-> ticket_type, channel |-> r.channel,
                                      confirmations |-> {}])
          /\ Respond("confirm_slash", r.user, r.channel, "Started", Len(views) + 1)
  /\ handlers' = Finish(r)
  /\ UNCHANGED <<overwrites, proofs, tickets, ticket_counter, channels, next_channel,
                 confirmations, quorum_msgs, logs, tasks, roles, role_cache, now, role_changes,
                 budget>>

\* add_confirmation without its ON CONFLICT ... DO NOTHING clause
add_confirmation_no_conflict(rows, ticket_id, ticket_type, user_id) ==
  Append(rows, [ticket_id |-> ticket_id, ticket_type |-> ticket_type, user_id |-> user_id])

\* INSERT INTO ticket_confirmations ... ON CONFLICT (ticket_id, ticket_type, user_id) DO NOTHING
add_confirmation(rows, ticket_id, ticket_type, user_id) ==
  LET row == [ticket_id |-> ticket_id, ticket_type |-> ticket_type, user_id |-> user_id] IN
  IF \E i \in 1..Len(rows) : rows[i] = row THEN rows ELSE Append(rows, row)

\* ConfirmationView.confirm_button, up to its INSERT
confirm_button(user, v) ==
  /\ CanStart
  /\ v \in 1..Len(views)
  /\ views[v].channel \in channels
  /\ IF user \in views[v].confirmations
     THEN /\ Respond("confirm", user, views[v].channel, "AlreadyConfirmed", NULL)
          /\ UNCHANGED <<views, handlers>>
     ELSE /\ views' = [views EXCEPT ![v].confirmations = @ \cup {user}]
          /\ handlers' = Spawn(
                Running("confirm", "insert", user, views[v].channel, views[v].ticket_type,
                        NoTicket, <<v>>))
          /\ UNCHANGED responses
  /\ UNCHANGED <<overwrites, proofs, tickets, ticket_counter, channels, next_channel,
                 confirmations, quorum_msgs, logs, tasks, roles, role_cache, now, role_changes>>

\* confirm_button: db.add_confirmation, count = len(self.confirmations), the
\* "(count/2)" reply and, if count >= 2, the "Both users confirmed" message
confirm_insert(r) ==
  LET view == views[r.arg[1]]
      count == Cardinality(view.confirmations)
  IN
  /\ r.op = "confirm" /\ r.pc = "insert"
  /\ confirmations' = add_confirmation(confirmations, view.ticket_id, view.ticket_type, r.user)
  /\ Respond("confirm", r.user, r.channel, "Confirmed", count)
  /\ quorum_msgs' = IF count >= Quorum THEN quorum_msgs (+) SetToBag({r.channel})
                    ELSE quorum_msgs
  /\ handlers' = Finish(r)
  /\ UNCHANGED <<overwrites, proofs, tickets, ticket_counter, channels, next_channel, views, logs,
                 tasks, roles, role_cache, now, role_changes, budget>>

\* ------------------------------------------------------------------ Proof
\* INSERT INTO mm_proofs (ticket_id, ticket_type, middleman_id)
add_proof(rows, ticket_id, ticket_type, middleman_id) ==
  Append(rows, [ticket_id |-> ticket_id, ticket_type |-> ticket_type,
                middleman_id |-> middleman_id])

\* proof_slash, up to its INSERT: lookup, trust role (cached), defer and the
\* message to the proof channel
proof_slash(user, c) ==
  LET ticket == Lookup(c) IN
  /\ CanStart
  /\ c \in channels \cup {Lobby}
  /\ IF ticket = NoTicket
     THEN Respond("proof", user, c, "NotFound", NULL) /\ UNCHANGED <<handlers, role_cache>>
     ELSE /\ role_cache' = RoleCacheAfter(user)
          /\ IF ~has_middleman_role(user)
             THEN Respond("proof", user, c, "Forbidden", NULL) /\ UNCHANGED handlers
             ELSE /\ handlers' = Spawn(
                        Running("proof", "insert", user, c, LookupType(c), ticket, <<>>))
                  /\ UNCHANGED responses
  /\ UNCHANGED <<overwrites, proofs, tickets, ticket_counter, channels, next_channel,
                 confirmations, views, quorum_msgs, logs, tasks, roles, now, role_changes>>

\* proof_insert that also marks the ticket closed ("trade completed")
proof_insert_completes(r) ==
  /\ r.op = "proof" /\ r.pc = "insert"
  /\ proofs' = add_proof(proofs, r.ticket.ticket_id, r.ticket_type, r.user)
  /\ tickets' = [tickets EXCEPT ![r.ticket_type] = close_ticket(@, r.channel)]
  /\ handlers' = Step(r, [r EXCEPT !.pc = "log"])
  /\ UNCHANGED <<overwrites, ticket_counter, channels, next_channel, confirmations, views,
                 quorum_msgs, logs, tasks, responses, roles, role_cache, now, role_changes,
                 budget>>

\* proof_slash: db.add_proof
proof_insert(r) ==
  /\ r.op = "proof" /\ r.pc = "insert"
  /\ proofs' = add_proof(proofs, r.ticket.ticket_id, r.ticket_type, r.user)
  /\ handlers' = Step(r, [r EXCEPT !.pc = "log"])
  /\ UNCHANGED <<overwrites, tickets, ticket_counter, channels, next_channel, confirmations,
                 views, quorum_msgs, logs, tasks, responses, roles, role_cache, now, role_changes,
                 budget>>

\* proof_slash: await db.log_action(.. "proof_submitted" ..), then the followup
proof_log(r) ==
  /\ r.op = "proof" /\ r.pc = "log"
  /\ logs' = Append(logs, LogRow(r.ticket.ticket_id, r.ticket_type, "proof_submitted", r.user))
  /\ Respond("proof", r.user, r.channel, "Submitted", NULL)
  /\ handlers' = Finish(r)
  /\ UNCHANGED <<overwrites, proofs, tickets, ticket_counter, channels, next_channel,
                 confirmations, views, quorum_msgs, tasks, roles, role_cache, now, role_changes,
                 budget>>

\* on_submit that inserts the ticket before the channel exists, so that a
\* failure of create_text_channel leaves the record behind
on_submit_provision_orphans(r) ==
  /\ r.op = "create" /\ r.pc = "provision"
  /\ ticket_counter' = [ticket_counter EXCEPT ![r.ticket_type] = @ + 1]
  /\ tickets' = [tickets EXCEPT ![r.ticket_type] =
                   create_ticket(@, NULL, r.user, r.arg[1], r.arg[2])]
  /\ Respond("create", r.user, Lobby, "Failed", NULL)
  /\ handlers' = Finish(r)
  /\ UNCHANGED <<overwrites, proofs, channels, next_channel, confirmations, views, quorum_msgs,
                 logs, tasks, roles, role_cache, now, role_changes, budget>>

\* --------------------------------------------------------------- failures
\* on_submit: category.create_text_channel raises (safe_discord_request gives
\* up); the counter has been advanced, the except branch answers with an error
on_submit_provision_fails(r) ==
  /\ r.op = "create" /\ r.pc = "provision"
  /\ ticket_counter' = [ticket_counter EXCEPT ![r.ticket_type] = @ + 1]
  /\ Respond("create", r.user, Lobby, "Failed", NULL)
  /\ handlers' = Finish(r)
  /\ UNCHANGED <<overwrites, proofs, tickets, channels, next_channel, confirmations, views,
                 quorum_msgs, logs, tasks, roles, role_cache, now, role_changes, budget>>

\* on_submit: db.create_mm_ticket / db.create_pvp_ticket raises after the
\* channel was created; the except branch answers with an error
on_submit_insert_fails(r) ==
  /\ r.op = "create" /\ r.pc = "insert"
  /\ Respond("create", r.user, r.channel, "Failed", NULL)
  /\ handlers' = Finish(r)
  /\ UNCHANGED <<overwrites, proofs, tickets, ticket_counter, channels, next_channel,
                 confirmations, views, quorum_msgs, logs, tasks, roles, role_cache, now,
                 role_changes, budget>>

\* on_submit: safe_send_message(channel, ..) raises NotFound because the
\* channel has been deleted (a /close in it has run); the statements after it,
\* create_task(db.log_action(.. 'created' ..)) among them, are skipped and the
\* except branch answers with an error
on_submit_announce_fails(r) ==
  /\ r.op = "create" /\ r.pc = "announce"
  /\ r.channel \notin channels
  /\ Respond("create", r.user, r.channel, "Failed", NULL)
  /\ handlers' = Finish(r)
  /\ UNCHANGED <<overwrites, proofs, tickets, ticket_counter, channels, next_channel,
                 confirmations, views, quorum_msgs, logs, tasks, roles, role_cache, now,
                 role_changes, budget>>

\* proof_slash if log_action let the exception of its INSERT through: the
\* except branch of proof_slash answers with an error
proof_log_raises(r) ==
  /\ r.op = "proof" /\ r.pc = "log"
  /\ Respond("proof", r.user, r.channel, "Failed", NULL)
  /\ handlers' = Finish(r)
  /\ UNCHANGED <<overwrites, proofs, tickets, ticket_counter, channels, next_channel,
                 confirmations, views, quorum_msgs, logs, tasks, roles, role_cache, now,
                 role_changes, budget>>

\* db.log_action whose INSERT raises: `except Exception` logs the error and the
\* coroutine returns.  In a task started with create_task:
log_action_task_fails(e) ==
  /\ BagIn(e, tasks)
  /\ tasks' = tasks (-) SetToBag({e})
  /\ UNCHANGED <<overwrites, proofs, tickets, ticket_counter, channels, next_channel,
                 confirmations, views, quorum_msgs, logs, handlers, responses, roles, role_cache,
                 now, role_changes, budget>>

\* awaited at the end of claim_slash and unclaim_slash, started as a task by
\* claim_button (where the failure happens in log_action_task_fails):
handler_log_fails(r) ==
  /\ r.pc = "log" /\ r.op \in {"claim_slash", "unclaim"}
  /\ handlers' = Finish(r)
  /\ UNCHANGED <<overwrites, proofs, tickets, ticket_counter, channels, next_channel,
                 confirmations, views, quorum_msgs, logs, tasks, responses, roles, role_cache,
                 now, role_changes, budget>>

\* awaited by proof_slash before its followup:
proof_log_fails(r) ==
  /\ r.op = "proof" /\ r.pc = "log"
  /\ Respond("proof", r.user, r.channel, "Submitted", NULL)
  /\ handlers' = Finish(r)
  /\ UNCHANGED <<overwrites, proofs, tickets, ticket_counter, channels, next_channel,
                 confirmations, views, quorum_msgs, logs, tasks, roles, role_cache, now,
                 role_changes, budget>>

\* confirm_button: db.add_confirmation raises (it logs and re-raises); the
\* callback ends there, after self.confirmations.add(user_id)
confirm_insert_fails(r) ==
  /\ r.op = "confirm" /\ r.pc = "insert"
  /\ Respond("confirm", r.user, r.channel, "Failed", NULL)
  /\ handlers' = Finish(r)
  /\ UNCHANGED <<overwrites, proofs, tickets, ticket_counter, channels, next_channel,
                 confirmations, views, quorum_msgs, logs, tasks, roles, role_cache, now,
                 role_changes, budget>>

\* the handlers that begin with get_mm_ticket_by_channel / get_pvp_ticket_by_channel
LookupOps == {"claim_button", "claim_slash", "unclaim", "confirm_slash", "proof", "close"}
\* a handler whose lookup cannot reach the store: get_*_ticket_by_channel
\* catches the exception and returns None, the handler takes `if not ticket`
lookup_unavailable(op, user, c) ==
  /\ CanStart
  /\ op \in LookupOps
  /\ c \in channels \cup {Lobby}
  /\ Respond(op, user, c, "NotFound", NULL)
  /\ UNCHANGED <<overwrites, proofs, tickets, ticket_counter, channels, next_channel,
                 confirmations, views, quorum_msgs, logs, tasks, handlers, roles, role_cache, now,
                 role_changes>>

\* ------------------------------------------------------------ /add, /remove
\* channel.permissions_for(member).view_channel with the member overwrites ow
\* and the member roles rl: an administrator, a member overwrite, or one of the
\* role overwrites that on_submit puts on the channel for the tiers from the
\* ticket's tier upward
permissions_for(ow, rl, user, c) ==
  \/ is_admin(user)
  \/ <<c, user>> \in ow
  \/ /\ Lookup(c) # NoTicket
     /\ \E t \in Tiers : /\ TIER_ROLES[t] \in rl[user]
                          /\ TIER_HIERARCHY[t] >= TIER_HIERARCHY[Lookup(c).tier]

\* `claimed_by == user.id or requester_id == user.id or has_middleman_role(user)`
\* of add_slash and remove_slash; the role cache is consulted last
has_permission(user, ticket) ==
  ticket.claimed_by = user \/ ticket.requester_id = user \/ has_middleman_role(user)
PermissionCacheAfter(user, ticket) ==
  IF ticket.claimed_by = user \/ ticket.requester_id = user THEN role_cache
  ELSE RoleCacheAfter(user)

\* add_slash, up to channel.set_permissions
add_slash(user, target, c) ==
  LET ticket == Lookup(c) IN
  /\ CanStart
  /\ c \in channels \cup {Lobby}
  /\ IF ticket = NoTicket
     THEN Respond("add", user, c, "NotFound", target) /\ UNCHANGED <<handlers, role_cache>>
     ELSE /\ role_cache' = PermissionCacheAfter(user, ticket)
          /\ IF ~has_permission(user, ticket)
             THEN Respond("add", user, c, "Forbidden", target) /\ UNCHANGED handlers
             ELSE IF permissions_for(overwrites, roles, target, c)
             THEN Respond("add", user, c, "AlreadyMember", target) /\ UNCHANGED handlers
             ELSE /\ handlers' = Spawn(
                        Running("add", "apply", user, c, LookupType(c), ticket, <<target>>))
                  /\ UNCHANGED responses
  /\ UNCHANGED <<overwrites, proofs, tickets, ticket_counter, channels, next_channel,
                 confirmations, views, quorum_msgs, logs, tasks, roles, now, role_changes>>

\* add_slash from channel.set_permissions on; the request raises when the
\* channel is gone
add_apply(r) ==
  /\ r.op = "add" /\ r.pc = "apply"
  /\ IF r.channel \in channels
     THEN /\ overwrites' = overwrites \cup {<<r.channel, r.arg[1]>>}
          /\ tasks' = tasks (+) SetToBag({LogRow(r.ticket.ticket_id, r.ticket_type,
                                                 "user_added:" \o ToString(r.arg[1]), r.user)})
          /\ Respond("add", r.user, r.channel, "Added", r.arg[1])
     ELSE /\ Respond("add", r.user, r.channel, "Failed", r.arg[1])
          /\ UNCHANGED <<overwrites, tasks>>
  /\ handlers' = Finish(r)
  /\ UNCHANGED <<proofs, tickets, ticket_counter, channels, next_channel, confirmations, views,
                 quorum_msgs, logs, roles, role_cache, now, role_changes, budget>>

\* remove_slash, up to channel.set_permissions
remove_slash(user, target, c) ==
  LET ticket == Lookup(c) IN
  /\ CanStart
  /\ c \in channels \cup {Lobby}
  /\ IF ticket = NoTicket
     THEN Respond("remove", user, c, "NotFound", target) /\ UNCHANGED <<handlers, role_cache>>
     ELSE /\ role_cache' = PermissionCacheAfter(user, ticket)
          /\ IF ~has_permission(user, ticket)
             THEN Respond("remove", user, c, "Forbidden", target) /\ UNCHANGED handlers
             ELSE IF target = ticket.requester_id
             THEN Respond("remove", user, c, "IsRequester", target) /\ UNCHANGED handlers
             ELSE IF target = ticket.claimed_by
             THEN Respond("remove", user, c, "IsClaimant", target) /\ UNCHANGED handlers
             ELSE /\ handlers' = Spawn(
                        Running("remove", "apply", user, c, LookupType(c), ticket, <<target>>))
                  /\ UNCHANGED responses
  /\ UNCHANGED <<overwrites, proofs, tickets, ticket_counter, channels, next_channel,
                 confirmations, views, quorum_msgs, logs, tasks, roles, now, role_changes>>

\* remove_slash from channel.set_permissions(user, overwrite=None) on; the
\* request raises when the channel is gone
remove_apply(r) ==
  /\ r.op = "remove" /\ r.pc = "apply"
  /\ IF r.channel \in channels
     THEN /\ overwrites' = overwrites \ {<<r.channel, r.arg[1]>>}
          /\ tasks' = tasks (+) SetToBag({LogRow(r.ticket.ticket_id, r.ticket_type,
                                                 "user_removed:" \o ToString(r.arg[1]), r.user)})
          /\ Respond("remove", r.user, r.channel, "Removed", r.arg[1])
     ELSE /\ Respond("remove", r.user, r.channel, "Failed", r.arg[1])
          /\ UNCHANGED <<overwrites, tasks>>
  /\ handlers' = Finish(r)
  /\ UNCHANGED <<proofs, tickets, ticket_counter, channels, next_channel, confirmations, views,
                 quorum_msgs, logs, roles, role_cache, now, role_changes, budget>>

\* ------------------------------------------------- safe_discord_request
\* What `await coro` gives on the first await of the coroutine: the result, a
\* discord.HTTPException with its status, or asyncio.TimeoutError.
AwaitOutcomes ==
  {[kind |-> "ok", status |-> 200], [kind |-> "timeout", status |-> 0]}
    \cup {[kind |-> "http", status |-> st] : st \in {400, 403, 404, 429, 500, 503}}
\* What `await coro` gives on every later await of the same coroutine object:
\* RuntimeError (cannot reuse already awaited coroutine)
ReuseOutcome == [kind |-> "runtime", status |-> 0]
NoError == [kind |-> "none", status |-> 0]

\* safe_discord_request(coro, max_retries): the call, up to the first await
safe_discord_request(max_retries) ==
  /\ CanStart
  /\ IF max_retries = 0
     THEN /\ Respond("safe_discord_request", NULL, NULL, "Returned", <<max_retries, <<>>, NoError>>)
          /\ UNCHANGED handlers
     ELSE /\ handlers' = Spawn(Running("safe_discord_request", "await", NULL, NULL, "none",
                                       NoTicket, <<max_retries, <<>>>>))
          /\ UNCHANGED responses
  /\ UNCHANGED <<overwrites, proofs, tickets, ticket_counter, channels, next_channel,
                 confirmations, views, quorum_msgs, logs, tasks, roles, role_cache, now,
                 role_changes>>

\* safe_discord_request with the last `raise` of the TimeoutError branch
\* missing: the loop ends and the function returns None
request_attempt_returns(r, outcome) ==
  LET max_retries == r.arg[1]
      attempt == Len(r.arg[2])
      seen == Append(r.arg[2], outcome)
      status == outcome.status
      retry == IF outcome.kind = "http" THEN status = 429 \/ (status # 403 /\ status >= 500)
               ELSE outcome.kind = "timeout" IN
  /\ r.op = "safe_discord_request" /\ r.pc = "await"
  /\ outcome \in (IF attempt = 0 THEN AwaitOutcomes ELSE {ReuseOutcome})
  /\ IF outcome.kind = "ok"
     THEN /\ Respond("safe_discord_request", NULL, NULL, "Returned", <<max_retries, seen, NoError>>)
          /\ handlers' = Finish(r)
     ELSE IF retry /\ attempt < max_retries - 1
     THEN /\ handlers' = Step(r, [r EXCEPT !.arg = <<max_retries, seen>>])
          /\ UNCHANGED responses
     ELSE IF outcome.kind = "timeout"
     THEN /\ Respond("safe_discord_request", NULL, NULL, "Returned", <<max_retries, seen, NoError>>)
          /\ handlers' = Finish(r)
     ELSE /\ Respond("safe_discord_request", NULL, NULL, "Raised", <<max_retries, seen, outcome>>)
          /\ handlers' = Finish(r)
  /\ UNCHANGED <<overwrites, proofs, tickets, ticket_counter, channels, next_channel,
                 confirmations, views, quorum_msgs, logs, tasks, roles, role_cache, now,
                 role_changes, budget>>

\* One pass of the loop `for attempt in range(max_retries)`: `return await
\* coro`, or the except branch of what it raised, asyncio.sleep included.
\* r.arg holds max_retries and what the awaits so far have given.
request_attempt(r, outcome) ==
  LET max_retries == r.arg[1]
      attempt == Len(r.arg[2])
      seen == Append(r.arg[2], outcome)
      status == outcome.status
      retry == IF outcome.kind = "http" THEN status = 429 \/ (status # 403 /\ status >= 500)
               ELSE outcome.kind = "timeout" IN
  /\ r.op = "safe_discord_request" /\ r.pc = "await"
  /\ outcome \in (IF attempt = 0 THEN AwaitOutcomes ELSE {ReuseOutcome})
  /\ IF outcome.kind = "ok"
     THEN /\ Respond("safe_discord_request", NULL, NULL, "Returned", <<max_retries, seen, NoError>>)
          /\ handlers' = Finish(r)
     ELSE IF retry /\ attempt < max_retries - 1
     THEN /\ handlers' = Step(r, [r EXCEPT !.arg = <<max_retries, seen>>])
          /\ UNCHANGED responses
     ELSE /\ Respond("safe_discord_request", NULL, NULL, "Raised", <<max_retries, seen, outcome>>)
          /\ handlers' = Finish(r)
  /\ UNCHANGED <<overwrites, proofs, tickets, ticket_counter, channels, next_channel,
                 confirmations, views, quorum_msgs, logs, tasks, roles, role_cache, now,
                 role_changes, budget>>

\* ------------------------------------------------------------ environment
\* the guild changes the roles of a member (member.roles of later requests)
member_update(m, rs) ==
  /\ role_changes < MaxRoleChanges
  /\ rs # roles[m]
  /\ roles' = [roles EXCEPT ![m] = rs]
  /\ role_changes' = role_changes + 1
  /\ UNCHANGED <<overwrites, proofs, tickets, ticket_counter, channels, next_channel,
                 confirmations, views, quorum_msgs, logs, tasks, handlers, responses, role_cache,
                 now, budget>>

\* time passes: one cache lifetime
tick ==
  /\ now < StartTime + MaxTicks * CacheTTL
  /\ now' = now + CacheTTL
  /\ UNCHANGED <<overwrites, proofs, tickets, ticket_counter, channels, next_channel,
                 confirmations, views, quorum_msgs, logs, tasks, handlers, responses, roles,
                 role_cache, role_changes, budget>>

\* ------------------------------------------------------------------- Next
\* Creation and closure, from the freshly constructed bot.
Next ==
  \/ \E in \in CreateInputs : on_submit(in[1], in[4], in[2], in[3])
  \/ \E r \in BagToSet(handlers) : on_submit_provision(r)
  \/ \E r \in BagToSet(handlers) : on_submit_provision_fails(r)
  \/ \E r \in BagToSet(handlers) : on_submit_insert(r)
  \/ \E r \in BagToSet(handlers) : on_submit_insert_fails(r)
  \/ \E r \in BagToSet(handlers) : on_submit_announce(r)
  \/ \E r \in BagToSet(handlers) : on_submit_announce_fails(r)
  \/ \E e \in BagToSet(tasks) : log_action_task(e)
  \/ \E user \in Members, c \in channels \cup {Lobby} : close_slash(user, c)
  \/ \E r \in BagToSet(handlers) : close_write(r)
  \/ \E r \in BagToSet(handlers) : close_delete(r)

Spec == Init /\ [][Next]_vars

\* The bot after one CreateTicket by member 42 has run to its end: the state
\* Spec reaches by on_submit, on_submit_provision, on_submit_insert,
\* on_submit_announce and log_action_task.
InitTicket(kind, trader, tier) ==
  /\ tickets = [k \in Kinds |-> IF k = kind THEN create_ticket(<<>>, 1, 42, trader, tier)
                                ELSE <<>>]
  /\ ticket_counter = [k \in Kinds |-> IF k = kind THEN 1 ELSE 0]
  /\ channels = {1}
  /\ next_channel = 2
  /\ confirmations = <<>>
  /\ proofs = <<>>
  /\ views = <<>>
  /\ quorum_msgs = EmptyBag
  /\ logs = <<LogRow(1, kind, "created", 42)>>
  /\ tasks = EmptyBag
  /\ handlers = EmptyBag
  /\ responses = SetToBag({Outcome("create", 42, 1, "Created", 1)})
  /\ roles = InitRoles
  /\ role_cache = EmptyCache
  /\ now = StartTime
  /\ role_changes = 0
  /\ overwrites = channels \X {42}

\* The bot after that CreateTicket and a /claim by middleman 7 have run to
\* their ends (claim_slash, claim_write, handler_log).
InitClaimedTicket(kind, trader, tier) ==
  /\ tickets = [k \in Kinds |->
        IF k = kind THEN claim_ticket(create_ticket(<<>>, 1, 42, trader, tier), 1, 7)
        ELSE <<>>]
  /\ ticket_counter = [k \in Kinds |-> IF k = kind THEN 1 ELSE 0]
  /\ channels = {1}
  /\ next_channel = 2
  /\ confirmations = <<>>
  /\ proofs = <<>>
  /\ views = <<>>
  /\ quorum_msgs = EmptyBag
  /\ logs = <<LogRow(1, kind, "created", 42), LogRow(1, kind, "claimed", 7)>>
  /\ tasks = EmptyBag
  /\ handlers = EmptyBag
  /\ responses = SetToBag({Outcome("create", 42, 1, "Created", 1),
                            Outcome("claim_slash", 7, 1, "Claimed", 7)})
  /\ roles = InitRoles
  /\ role_cache = [EmptyCache EXCEPT ![7] = [result |-> TRUE, time |-> StartTime]]
  /\ now = StartTime
  /\ role_changes = 0
  /\ overwrites = channels \X {42}

\* Claim and unclaim of a ticket, unclaimed or claimed by 7, with the guild
\* changing roles and time passing.
InitClaim ==
  /\ \E kind \in Kinds : \/ InitTicket(kind, "9cv", "middleman")
                          \/ InitClaimedTicket(kind, "9cv", "middleman")
  /\ budget = MaxClaimRequests

NextClaim ==
  \/ \E user \in Members, c \in channels, kind \in Kinds :
        claim_button(user, c, kind)
  \/ \E user \in Members, c \in channels \cup {Lobby} : claim_slash(user, c)
  \/ \E r \in BagToSet(handlers) : claim_write(r)
  \/ \E r \in BagToSet(handlers) : handler_log(r)
  \/ \E user \in Members, c \in channels \cup {Lobby} : unclaim_slash(user, c)
  \/ \E r \in BagToSet(handlers) : unclaim_write(r)
  \/ \E e \in BagToSet(tasks) : log_action_task(e)
  \/ \E m \in UpdatedMembers, rs \in RoleChoices : member_update(m, rs)
  \/ tick

SpecClaim == InitClaim /\ [][NextClaim]_vars

\* Confirmation prompts and confirmations on the ticket.
InitConfirm ==
  /\ InitTicket("mm", "9cv", "middleman")
  /\ budget = MaxConfirmRequests

NextConfirm ==
  \/ \E user \in Members, c \in channels \cup {Lobby} : confirm_slash(user, c)
  \/ \E r \in BagToSet(handlers) : confirm_start(r)
  \/ \E user \in Members, v \in 1..Len(views) : confirm_button(user, v)
  \/ \E r \in BagToSet(handlers) : confirm_insert(r)
  \/ \E user \in Members, c \in channels \cup {Lobby} : claim_slash(user, c)
  \/ \E r \in BagToSet(handlers) : claim_write(r)
  \/ \E r \in BagToSet(handlers) : handler_log(r)

SpecConfirm == InitConfirm /\ [][NextConfirm]_vars

\* Closing and proof on the ticket, unclaimed or claimed by 7, with the guild
\* changing roles, time passing and the store unreachable for a lookup.
InitClose ==
  /\ \E kind \in Kinds : \/ InitTicket(kind, "9cv", "middleman")
                          \/ InitClaimedTicket(kind, "9cv", "middleman")
  /\ budget = MaxCloseRequests

NextClose ==
  \/ \E user \in Members, c \in channels \cup {Lobby} : close_slash(user, c)
  \/ \E r \in BagToSet(handlers) : close_write(r)
  \/ \E r \in BagToSet(handlers) : close_delete(r)
  \/ \E e \in BagToSet(tasks) : log_action_task(e)
  \/ \E user \in Members, c \in channels \cup {Lobby} : proof_slash(user, c)
  \/ \E r \in BagToSet(handlers) : proof_insert(r)
  \/ \E r \in BagToSet(handlers) : proof_log(r)
  \/ \E op \in LookupOps, user \in Members, c \in channels : lookup_unavailable(op, user, c)
  \/ \E m \in UpdatedMembers, rs \in RoleChoices : member_update(m, rs)
  \/ tick

SpecClose == InitClose /\ [][NextClose]_vars

\* The bot after a CreateTicket by 42, a /claim by 7 and a /close by 7 that
\* has run up to its asyncio.sleep(1): the ticket is closed, its channel is
\* still there (on_submit .. log_action_task, claim_slash .. handler_log,
\* close_slash, close_write, log_action_task).
InitClosedTicket(kind, trader, tier) ==
  LET rows == close_ticket(claim_ticket(create_ticket(<<>>, 1, 42, trader, tier), 1, 7), 1)
  IN
  /\ now = StartTime
  /\ tickets = [k \in Kinds |-> IF k = kind THEN rows ELSE <<>>]
  /\ ticket_counter = [k \in Kinds |-> IF k = kind THEN 1 ELSE 0]
  /\ channels = {1}
  /\ next_channel = 2
  /\ confirmations = <<>>
  /\ proofs = <<>>
  /\ views = <<>>
  /\ quorum_msgs = EmptyBag
  /\ logs = <<LogRow(1, kind, "created", 42), LogRow(1, kind, "claimed", 7),
              LogRow(1, kind, "closed", 7)>>
  /\ tasks = EmptyBag
  /\ handlers = SetToBag({Running("close", "delete", 7, 1, kind, rows[1], <<>>)})
  /\ responses = SetToBag({Outcome("create", 42, 1, "Created", 1),
                            Outcome("claim_slash", 7, 1, "Claimed", 7),
                            Outcome("close", 7, 1, "Closed", NULL)})
  /\ roles = InitRoles
  /\ role_cache = [EmptyCache EXCEPT ![7] = [result |-> TRUE, time |-> StartTime]]
  /\ role_changes = 0
  /\ overwrites = channels \X {42}

\* Every operation, on and next to a ticket that has just been closed.
InitClosed ==
  /\ \E kind \in Kinds : InitClosedTicket(kind, "9cv", "middleman")
  /\ budget = MaxClosedRequests

NextClosed ==
  \/ \E in \in CreateInputs : on_submit(in[1], in[4], in[2], in[3])
  \/ \E r \in BagToSet(handlers) : on_submit_provision(r)
  \/ \E r \in BagToSet(handlers) : on_submit_provision_fails(r)
  \/ \E r \in BagToSet(handlers) : on_submit_insert(r)
  \/ \E r \in BagToSet(handlers) : on_submit_announce(r)
  \/ \E r \in BagToSet(handlers) : on_submit_announce_fails(r)
  \/ \E e \in BagToSet(tasks) : log_action_task(e)
  \/ \E user \in Members, c \in channels, kind \in Kinds : claim_button(user, c, kind)
  \/ \E user \in Members, c \in channels : claim_slash(user, c)
  \/ \E r \in BagToSet(handlers) : claim_write(r)
  \/ \E r \in BagToSet(handlers) : handler_log(r)
  \/ \E user \in Members, c \in channels : unclaim_slash(user, c)
  \/ \E r \in BagToSet(handlers) : unclaim_write(r)
  \/ \E user \in Members, c \in channels : confirm_slash(user, c)
  \/ \E r \in BagToSet(handlers) : confirm_start(r)
  \/ \E user \in Members, v \in 1..Len(views) : confirm_button(user, v)
  \/ \E r \in BagToSet(handlers) : confirm_insert(r)
  \/ \E user \in Members, c \in channels : proof_slash(user, c)
  \/ \E r \in BagToSet(handlers) : proof_insert(r)
  \/ \E r \in BagToSet(handlers) : proof_log(r)
  \/ \E user \in Members, c \in channels : close_slash(user, c)
  \/ \E r \in BagToSet(handlers) : close_write(r)
  \/ \E r \in BagToSet(handlers) : close_delete(r)

SpecClosed == InitClosed /\ [][NextClosed]_vars

\* The tier functions on every input: a ticket of any tier, and a member
\* holding any set of roles who asks to claim it.
AllRoles == {EveryoneRole} \cup {TIER_ROLES[t] : t \in Tiers}
InitTier ==
  /\ \E tier \in Tiers :
        tickets = [k \in Kinds |-> IF k = "mm" THEN create_ticket(<<>>, 1, 42, "9cv", tier)
                                   ELSE <<>>]
  /\ \E m \in UpdatedMembers, rs \in SUBSET AllRoles : roles = [InitRoles EXCEPT ![m] = rs]
  /\ ticket_counter = [k \in Kinds |-> IF k = "mm" THEN 1 ELSE 0]
  /\ channels = {1}
  /\ next_channel = 2
  /\ confirmations = <<>>
  /\ proofs = <<>>
  /\ views = <<>>
  /\ quorum_msgs = EmptyBag
  /\ logs = <<LogRow(1, "mm", "created", 42)>>
  /\ tasks = EmptyBag
  /\ handlers = EmptyBag
  /\ responses = SetToBag({Outcome("create", 42, 1, "Created", 1)})
  /\ role_cache = EmptyCache
  /\ now = StartTime
  /\ role_changes = 0
  /\ overwrites = channels \X {42}
  /\ budget = MaxTierRequests

NextTier ==
  \/ \E user \in UpdatedMembers, c \in channels, kind \in Kinds : claim_button(user, c, kind)
  \/ \E user \in UpdatedMembers, c \in channels : claim_slash(user, c)
  \/ \E r \in BagToSet(handlers) : claim_write(r)
  \/ \E r \in BagToSet(handlers) : handler_log(r)
  \/ \E e \in BagToSet(tasks) : log_action_task(e)

SpecTier == InitTier /\ [][NextTier]_vars

\* Every operation that writes to the audit log, on a ticket unclaimed or
\* claimed by 7, with the INSERT of log_action succeeding or failing.
InitAudit ==
  /\ \/ InitTicket("mm", "9cv", "middleman")
     \/ InitClaimedTicket("mm", "9cv", "middleman")
  /\ budget = MaxAuditRequests

NextAudit ==
  \/ on_submit(7, "mm", "9cv", "middleman")
  \/ \E r \in BagToSet(handlers) : on_submit_provision(r)
  \/ \E r \in BagToSet(handlers) : on_submit_insert(r)
  \/ \E r \in BagToSet(handlers) : on_submit_announce(r)
  \/ \E r \in BagToSet(handlers) : on_submit_announce_fails(r)
  \/ \E user \in Members, c \in channels : claim_button(user, c, "mm")
  \/ \E user \in Members, c \in channels : claim_slash(user, c)
  \/ \E r \in BagToSet(handlers) : claim_write(r)
  \/ \E user \in Members, c \in channels : unclaim_slash(user, c)
  \/ \E r \in BagToSet(handlers) : unclaim_write(r)
  \/ \E user \in Members, c \in channels : proof_slash(user, c)
  \/ \E r \in BagToSet(handlers) : proof_insert(r)
  \/ \E user \in Members, c \in channels : close_slash(user, c)
  \/ \E r \in BagToSet(handlers) : close_write(r)
  \/ \E r \in BagToSet(handlers) : close_delete(r)
  \/ \E r \in BagToSet(handlers) : handler_log(r)
  \/ \E r \in BagToSet(handlers) : handler_log_fails(r)
  \/ \E r \in BagToSet(handlers) : proof_log(r)
  \/ \E r \in BagToSet(handlers) : proof_log_fails(r)
  \/ \E e \in BagToSet(tasks) : log_action_task(e)
  \/ \E e \in BagToSet(tasks) : log_action_task_fails(e)

SpecAudit == InitAudit /\ [][NextAudit]_vars

\* Claims and unclaims of the ticket claimed by 7, three requests deep.
InitUnclaim ==
  /\ InitClaimedTicket("mm", "9cv", "middleman")
  /\ budget = MaxUnclaimRequests

NextUnclaim ==
  \/ \E user \in Members, c \in channels : claim_slash(user, c)
  \/ \E r \in BagToSet(handlers) : claim_write(r)
  \/ \E user \in Members, c \in channels : unclaim_slash(user, c)
  \/ \E r \in BagToSet(handlers) : unclaim_write(r)
  \/ \E r \in BagToSet(handlers) : handler_log(r)

SpecUnclaim == InitUnclaim /\ [][NextUnclaim]_vars

\* Confirmations on the ticket with the INSERT of add_confirmation succeeding
\* or failing.
InitConfirmFault ==
  /\ InitClaimedTicket("mm", "9cv", "middleman")
  /\ budget = MaxFaultRequests

NextConfirmFault ==
  \/ \E user \in Members, c \in channels : confirm_slash(user, c)
  \/ \E r \in BagToSet(handlers) : confirm_start(r)
  \/ \E user \in Members, v \in 1..Len(views) : confirm_button(user, v)
  \/ \E r \in BagToSet(handlers) : confirm_insert(r)
  \/ \E r \in BagToSet(handlers) : confirm_insert_fails(r)

SpecConfirmFault == InitConfirmFault /\ [][NextConfirmFault]_vars

\* Every operation that writes to the audit log, with the store available and
\* the event loop fair: a coroutine that can run does run.
InitLive ==
  /\ \/ InitTicket("mm", "9cv", "middleman")
     \/ InitClaimedTicket("mm", "9cv", "middleman")
  /\ budget = MaxLiveRequests

\* the steps the event loop takes once a request has been dispatched
LoopSteps ==
  \/ \E r \in BagToSet(handlers) : on_submit_provision(r)
  \/ \E r \in BagToSet(handlers) : on_submit_insert(r)
  \/ \E r \in BagToSet(handlers) : on_submit_announce(r)
  \/ \E r \in BagToSet(handlers) : on_submit_announce_fails(r)
  \/ \E r \in BagToSet(handlers) : claim_write(r)
  \/ \E r \in BagToSet(handlers) : unclaim_write(r)
  \/ \E r \in BagToSet(handlers) : proof_insert(r)
  \/ \E r \in BagToSet(handlers) : proof_log(r)
  \/ \E r \in BagToSet(handlers) : close_write(r)
  \/ \E r \in BagToSet(handlers) : close_delete(r)
  \/ \E r \in BagToSet(handlers) : handler_log(r)
  \/ \E e \in BagToSet(tasks) : log_action_task(e)

NextLive ==
  \/ on_submit(7, "mm", "9cv", "middleman")
  \/ \E user \in Members, c \in channels : claim_button(user, c, "mm")
  \/ \E user \in Members, c \in channels : claim_slash(user, c)
  \/ \E user \in Members, c \in channels : unclaim_slash(user, c)
  \/ \E user \in Members, c \in channels : proof_slash(user, c)
  \/ \E user \in Members, c \in channels : close_slash(user, c)
  \/ LoopSteps

SpecLive == InitLive /\ [][NextLive]_vars /\ WF_vars(LoopSteps)

\* ------------------------------------------------- the store, called directly
\* The methods of Database other than create, called with any channel or
\* ticket id.  A call that returns is recorded with what it returned: an UPDATE
\* whose WHERE matches no row is "UPDATE 0" to conn.execute, and the method
\* returns; fetchrow without a row gives None.
StoreMethod(name, kind) == name \o "_" \o kind \o "_ticket"
StoreKeys == channels \cup {Lobby}
StoreIds(kind) == 1..NewTicketId(tickets[kind])

db_claim_ticket(kind, c, user_id) ==
  /\ CanStart
  /\ tickets' = [tickets EXCEPT ![kind] = claim_ticket(@, c, user_id)]
  /\ Respond(StoreMethod("claim", kind), user_id, c, "Returned", NULL)
  /\ UNCHANGED <<overwrites, proofs, ticket_counter, channels, next_channel, confirmations, views,
                 quorum_msgs, logs, tasks, handlers, roles, role_cache, now, role_changes>>

db_unclaim_ticket(kind, c) ==
  /\ CanStart
  /\ tickets' = [tickets EXCEPT ![kind] = unclaim_ticket(@, c)]
  /\ Respond(StoreMethod("unclaim", kind), NULL, c, "Returned", NULL)
  /\ UNCHANGED <<overwrites, proofs, ticket_counter, channels, next_channel, confirmations, views,
                 quorum_msgs, logs, tasks, handlers, roles, role_cache, now, role_changes>>

db_close_ticket(kind, c) ==
  /\ CanStart
  /\ tickets' = [tickets EXCEPT ![kind] = close_ticket(@, c)]
  /\ Respond(StoreMethod("close", kind), NULL, c, "Returned", NULL)
  /\ UNCHANGED <<overwrites, proofs, ticket_counter, channels, next_channel, confirmations, views,
                 quorum_msgs, logs, tasks, handlers, roles, role_cache, now, role_changes>>

db_get_ticket_by_channel(kind, c) ==
  LET row == get_ticket_by_channel(kind, c) IN
  /\ CanStart
  /\ Respond(StoreMethod("get", kind) \o "_by_channel", NULL, c,
             IF row = NoTicket THEN "None" ELSE "Row", row.ticket_id)
  /\ UNCHANGED <<overwrites, proofs, tickets, ticket_counter, channels, next_channel,
                 confirmations, views, quorum_msgs, logs, tasks, handlers, roles, role_cache, now,
                 role_changes>>

db_get_ticket_by_id(kind, ticket_id) ==
  LET row == get_ticket_by_id(kind, ticket_id) IN
  /\ CanStart
  /\ Respond(StoreMethod("get", kind) \o "_by_id", NULL,
             IF row = NoTicket THEN NULL ELSE row.channel_id,
             IF row = NoTicket THEN "None" ELSE "Row", ticket_id)
  /\ UNCHANGED <<overwrites, proofs, tickets, ticket_counter, channels, next_channel,
                 confirmations, views, quorum_msgs, logs, tasks, handlers, roles, role_cache, now,
                 role_changes>>

InitStore ==
  /\ \E kind \in Kinds : \/ InitTicket(kind, "9cv", "middleman")
                          \/ InitClaimedTicket(kind, "9cv", "middleman")
  /\ budget = MaxStoreCalls

NextStore ==
  \/ \E kind \in Kinds, c \in StoreKeys, user_id \in Members : db_claim_ticket(kind, c, user_id)
  \/ \E kind \in Kinds, c \in StoreKeys : db_unclaim_ticket(kind, c)
  \/ \E kind \in Kinds, c \in StoreKeys : db_close_ticket(kind, c)
  \/ \E kind \in Kinds, c \in StoreKeys : db_get_ticket_by_channel(kind, c)
  \/ \E kind \in Kinds : \E ticket_id \in StoreIds(kind) : db_get_ticket_by_id(kind, ticket_id)
  \/ tick

SpecStore == InitStore /\ [][NextStore]_vars

\* /confirm next to /unclaim on a claimed ticket.
InitPrompt ==
  /\ InitClaimedTicket("mm", "9cv", "middleman")
  /\ budget = MaxPromptRequests

NextPrompt ==
  \/ \E user \in Members, c \in channels : confirm_slash(user, c)
  \/ \E r \in BagToSet(handlers) : confirm_start(r)
  \/ \E user \in Members, c \in channels : unclaim_slash(user, c)
  \/ \E r \in BagToSet(handlers) : unclaim_write(r)
  \/ \E r \in BagToSet(handlers) : handler_log(r)

SpecPrompt == InitPrompt /\ [][NextPrompt]_vars

\* Two tickets side by side: ticket 1 of requester 42 in channel 1, claimed by
\* 7, and an open ticket of tier trial in channel 2, of the same or of the
\* other kind (on_submit .. log_action_task twice, claim_slash .. handler_log).
InitFrame ==
  /\ \E k1 \in Kinds, k2 \in Kinds :
        LET first == claim_ticket(create_ticket(<<>>, 1, 42, "9cv", "middleman"), 1, 7) IN
        /\ tickets = [k \in Kinds |->
              IF k = k1 /\ k = k2 THEN create_ticket(first, 2, 42, "9cv", "trial")
              ELSE IF k = k1 THEN first
              ELSE IF k = k2 THEN create_ticket(<<>>, 2, 42, "9cv", "trial")
              ELSE <<>>]
        /\ ticket_counter = [k \in Kinds |-> Len(tickets[k])]
        /\ logs = <<LogRow(1, k1, "created", 42), LogRow(1, k1, "claimed", 7),
                    LogRow(Len(tickets[k2]), k2, "created", 42)>>
        /\ responses = SetToBag({Outcome("create", 42, 1, "Created", 1),
                                  Outcome("claim_slash", 7, 1, "Claimed", 7),
                                  Outcome("create", 42, 2, "Created", Len(tickets[k2]))})
  /\ channels = {1, 2}
  /\ next_channel = 3
  /\ confirmations = <<>>
  /\ proofs = <<>>
  /\ views = <<>>
  /\ quorum_msgs = EmptyBag
  /\ tasks = EmptyBag
  /\ handlers = EmptyBag
  /\ roles = InitRoles
  /\ role_cache = [EmptyCache EXCEPT ![7] = [result |-> TRUE, time |-> StartTime]]
  /\ now = StartTime
  /\ role_changes = 0
  /\ overwrites = channels \X {42}
  /\ budget = MaxFrameRequests

NextFrame ==
  \/ \E user \in Members, c \in channels : claim_slash(user, c)
  \/ \E r \in BagToSet(handlers) : claim_write(r)
  \/ \E user \in Members, c \in channels : unclaim_slash(user, c)
  \/ \E r \in BagToSet(handlers) : unclaim_write(r)
  \/ \E r \in BagToSet(handlers) : handler_log(r)
  \/ \E user \in Members, c \in channels : close_slash(user, c)
  \/ \E r \in BagToSet(handlers) : close_write(r)
  \/ \E r \in BagToSet(handlers) : close_delete(r)
  \/ \E e \in BagToSet(tasks) : log_action_task(e)

SpecFrame == InitFrame /\ [][NextFrame]_vars

\* /add and /remove on a claimed ticket, next to /claim and /unclaim and to
\* role changes of middleman 7.
InitRemove ==
  /\ InitClaimedTicket("mm", "9cv", "middleman")
  /\ budget = MaxRemoveRequests

NextRemove ==
  \/ \E user \in Members, target \in Members, c \in channels : add_slash(user, target, c)
  \/ \E r \in BagToSet(handlers) : add_apply(r)
  \/ \E user \in Members, target \in Members, c \in channels : remove_slash(user, target, c)
  \/ \E r \in BagToSet(handlers) : remove_apply(r)
  \/ \E user \in Members, c \in channels : claim_slash(user, c)
  \/ \E r \in BagToSet(handlers) : claim_write(r)
  \/ \E user \in Members, c \in channels : unclaim_slash(user, c)
  \/ \E r \in BagToSet(handlers) : unclaim_write(r)
  \/ \E r \in BagToSet(handlers) : handler_log(r)
  \/ \E e \in BagToSet(tasks) : log_action_task(e)
  \/ \E m \in UpdatedMembers, rs \in RoleChoices : member_update(m, rs)

SpecRemove == InitRemove /\ [][NextRemove]_vars

\* Calls of safe_discord_request with a coroutine, as every caller makes them,
\* for every max_retries up to MaxRetries.
InitApi ==
  /\ InitTicket("mm", "9cv", "middleman")
  /\ budget = MaxApiRequests

NextApi ==
  \/ \E max_retries \in 0..MaxRetries : safe_discord_request(max_retries)
  \/ \E r \in BagToSet(handlers) :
        \E outcome \in AwaitOutcomes \cup {ReuseOutcome} : request_attempt(r, outcome)

SpecApi == InitApi /\ [][NextApi]_vars

\* The end-to-end scenario: the requests below, each issued when the one
\* before has been handled.  The kind of ticket, and button or slash command
\* for a claim, are free; the started log_action tasks run when they run.
Scenario ==
  <<[op |-> "create", user |-> 42], [op |-> "claim", user |-> 7],
    [op |-> "claim", user |-> 8], [op |-> "unclaim", user |-> 7],
    [op |-> "claim", user |-> 8], [op |-> "confirm_slash", user |-> 8],
    [op |-> "confirm", user |-> 42], [op |-> "confirm", user |-> 8],
    [op |-> "close", user |-> 8]>>
\* requests of the scenario issued so far
Done == Len(Scenario) - budget
\* no handler is running and the next request of the scenario is `op` by `user`
Turn(op, user) ==
  /\ handlers = EmptyBag
  /\ budget > 0
  /\ Scenario[Done + 1] = [op |-> op, user |-> user]

InitScenario ==
  /\ tickets = [k \in Kinds |-> <<>>]
  /\ ticket_counter = [k \in Kinds |-> 0]
  /\ channels = {}
  /\ next_channel = 1
  /\ confirmations = <<>>
  /\ proofs = <<>>
  /\ views = <<>>
  /\ quorum_msgs = EmptyBag
  /\ logs = <<>>
  /\ tasks = EmptyBag
  /\ handlers = EmptyBag
  /\ responses = EmptyBag
  /\ roles = InitRoles
  /\ role_cache = EmptyCache
  /\ now = StartTime
  /\ role_changes = 0
  /\ overwrites = channels \X {42}
  /\ budget = Len(Scenario)

NextScenario ==
  \/ \E user \in Members, kind \in Kinds :
        Turn("create", user) /\ on_submit(user, kind, "9cv", "middleman")
  \/ \E r \in BagToSet(handlers) : on_submit_provision(r)
  \/ \E r \in BagToSet(handlers) : on_submit_insert(r)
  \/ \E r \in BagToSet(handlers) : on_submit_announce(r)
  \/ \E e \in BagToSet(tasks) : log_action_task(e)
  \/ \E user \in Members, c \in channels, kind \in Kinds :
        Turn("claim", user) /\ claim_button(user, c, kind)
  \/ \E user \in Members, c \in channels : Turn("claim", user) /\ claim_slash(user, c)
  \/ \E r \in BagToSet(handlers) : claim_write(r)
  \/ \E r \in BagToSet(handlers) : handler_log(r)
  \/ \E user \in Members, c \in channels : Turn("unclaim", user) /\ unclaim_slash(user, c)
  \/ \E r \in BagToSet(handlers) : unclaim_write(r)
  \/ \E user \in Members, c \in channels :
        Turn("confirm_slash", user) /\ confirm_slash(user, c)
  \/ \E r \in BagToSet(handlers) : confirm_start(r)
  \/ \E user \in Members, v \in 1..Len(views) :
        Turn("confirm", user) /\ confirm_button(user, v)
  \/ \E r \in BagToSet(handlers) : confirm_insert(r)
  \/ \E user \in Members, c \in channels : Turn("close", user) /\ close_slash(user, c)
  \/ \E r \in BagToSet(handlers) : close_write(r)
  \/ \E r \in BagToSet(handlers) : close_delete(r)

SpecScenario == InitScenario /\ [][NextScenario]_vars

\* ------------------------------------------------------------- properties
\* outcomes of the given operations on channel c that carry the given result
OutcomesOf(ops, c, result) ==
  {o \in BagToSet(responses) : o.op \in ops /\ o.channel = c /\ o.result = result}
\* how many requests were answered so
CountOf(ops, c, result) ==
  BagCardinality([o \in OutcomesOf(ops, c, result) |-> responses[o]])
ClaimOps == {"claim_button", "claim_slash"}
Rows(k) == {tickets[k][i] : i \in 1..Len(tickets[k])}
\* a ticket of the kind is open under the duplicate key (requester, trader, tier)
OpenUnderKey(kind, requester_id, username, tier) ==
  \E t \in Rows(kind) : /\ t.status = "open" /\ t.requester_id = requester_id
                        /\ t.username = username /\ t.tier = tier
\* the member holds a trust role whose rank reaches the rank of the tier
Eligible(user_role_ids, tier) ==
  \E t \in Tiers : TIER_ROLES[t] \in user_role_ids
                   /\ TIER_HIERARCHY[t] >= TIER_HIERARCHY[tier]
\* the distinct actors recorded as confirmers of a ticket in rows
Confirmers(rows, ticket_id, ticket_type) ==
  {rows[i].user_id : i \in {j \in 1..Len(rows) :
      rows[j].ticket_id = ticket_id /\ rows[j].ticket_type = ticket_type}}

\* C1: of the claim requests that distinct eligible actors issue against a
\* ticket that nobody has unclaimed, exactly one is answered Claimed (the
\* others AlreadyClaimed): no two actors are both answered Claimed.
C1_ExactlyOneClaimed ==
  \A c \in channels :
    CountOf({"unclaim"}, c, "Unclaimed") = 0
      => Cardinality({o.user : o \in OutcomesOf(ClaimOps, c, "Claimed")}) <= 1

\* C2: the stored claimant is never overwritten from one non-null actor to
\* another: a claimed ticket keeps its claimant until it is cleared.
C2_ClaimantNotOverwritten ==
  [][\A k \in Kinds : \A i \in 1..Len(tickets[k]) :
       tickets[k][i].claimed_by # NULL =>
         tickets'[k][i].claimed_by \in {NULL, tickets[k][i].claimed_by}]_vars

\* C3: at most one open ticket of a kind per duplicate key (requester,
\* counterparty string, tier), in every reachable state.
C3_OneOpenTicketPerKey ==
  \A k \in Kinds : \A i, j \in 1..Len(tickets[k]) :
    (/\ i # j
     /\ tickets[k][i].status = "open" /\ tickets[k][j].status = "open"
     /\ tickets[k][i].requester_id = tickets[k][j].requester_id
     /\ tickets[k][i].username = tickets[k][j].username)
    => tickets[k][i].tier # tickets[k][j].tier

\* C4: a CreateTicket arriving while a ticket is open under its key is
\* answered DuplicateExists and changes nothing else: no ticket record, no
\* channel, no counter step, no audit entry (none pending either), no
\* handler left running.
C4_DuplicateRejectedNoEffect ==
  [][\A in \in CreateInputs :
       (on_submit(in[1], in[4], in[2], in[3]) /\ OpenUnderKey(in[4], in[1], in[2], in[3]))
       => /\ responses' = responses (+)
               SetToBag({Outcome("create", in[1], Lobby, "DuplicateExists", NULL)})
          /\ UNCHANGED <<tickets, ticket_counter, channels, next_channel, logs, tasks,
                         handlers>>]_vars
\* C4 witness: a request was answered DuplicateExists while the ticket under
\* its key is open.
C4_Witness ==
  \E in \in CreateInputs :
     /\ OpenUnderKey(in[4], in[1], in[2], in[3])
     /\ BagIn(Outcome("create", in[1], Lobby, "DuplicateExists", NULL), responses)

C6_QuorumNotifiedOnce ==
  \A c \in channels : CopiesIn(c, quorum_msgs) <= 1

C8_CountIsRecordedConfirmers ==
  [][\A r \in BagToSet(handlers) :
       confirm_insert(r) =>
         LET view == views[r.arg[1]] IN
         BagIn(Outcome("confirm", r.user, r.channel, "Confirmed",
                       Cardinality(Confirmers(confirmations', view.ticket_id,
                                              view.ticket_type))),
               responses')]_vars

\* C9: a claim request on a ticket by a member who does not, at that moment,
\* hold a trust role of at least the ticket's tier is answered Forbidden and
\* goes no further: the store is unchanged and no claim is left pending,
\* whatever the role cache holds.
C9_ClaimNeedsTier ==
  [][\A user \in Members : \A c \in channels :
       LET ticket == Lookup(c) IN
       (/\ claim_slash(user, c) \/ \E k \in Kinds : claim_button(user, c, k)
        /\ ticket # NoTicket
        /\ ~Eligible(roles[user], ticket.tier))
       => /\ responses' (-) responses \in
               {SetToBag({Outcome(op, user, c, "Forbidden", NULL)}) : op \in ClaimOps}
          /\ UNCHANGED <<tickets, handlers>>]_vars
\* C9 witness: member 7 holds no sufficient trust role any more, the role
\* cache still answers true for 7, and a claim of 7 was answered Forbidden.
C9_Witness ==
  /\ \A c \in channels : Lookup(c) # NoTicket => ~Eligible(roles[7], Lookup(c).tier)
  /\ RoleCacheFresh(7) /\ role_cache[7].result
  /\ \E c \in channels : \E o \in OutcomesOf(ClaimOps, c, "Forbidden") : o.user = 7

\* C10: an unclaim clears the claimant only of a ticket that is claimed at
\* that moment, and only for its current claimant or an admin.
C10_UnclaimOnlyByClaimantOrAdmin ==
  [][\A r \in BagToSet(handlers) :
       unclaim_write(r) =>
         LET ticket == get_ticket_by_channel(r.ticket_type, r.channel) IN
         /\ ticket.claimed_by # NULL
         /\ ticket.claimed_by = r.user \/ is_admin(r.user)]_vars

\* C11: closing is idempotent: no step changes the status or the closure
\* timestamp of a ticket that is already closed.
C11_CloseIdempotent ==
  [][\A k \in Kinds : \A i \in 1..Len(tickets[k]) :
       tickets[k][i].status = "closed" =>
         /\ tickets'[k][i].status = "closed"
         /\ tickets'[k][i].closed_at = tickets[k][i].closed_at]_vars

\* C12: status is monotone: rows are never removed and no step of create,
\* claim, unclaim, confirm, proof or close takes a closed ticket back to open.
C12_StatusMonotone ==
  [][\A k \in Kinds :
       /\ Len(tickets'[k]) >= Len(tickets[k])
       /\ \A i \in 1..Len(tickets[k]) :
            tickets[k][i].status = "closed" => tickets'[k][i].status = "closed"]_vars
\* C12 witness: on the closed ticket (claimed by 7 when it was closed) an
\* unclaim and a claim by 8 have been carried out, and it is still closed.
C12_Witness ==
  \E k \in Kinds : \E i \in 1..Len(tickets[k]) :
     /\ tickets[k][i].status = "closed" /\ tickets[k][i].claimed_by = 8
     /\ CountOf({"unclaim"}, tickets[k][i].channel_id, "Unclaimed") = 1
     /\ handlers = EmptyBag

\* C16: a /close on a ticket by a member who holds no trust role at that
\* moment, or on a ticket that is not open, is rejected: nothing is left
\* pending that will close the ticket, log 'closed' and delete the channel.
C16_CloseNeedsRoleAndOpen ==
  [][\A user \in Members : \A c \in channels :
       LET ticket == Lookup(c) IN
       (/\ close_slash(user, c)
        /\ ticket # NoTicket
        /\ ~HoldsTrustRole(roles[user]) \/ ticket.status # "open")
       => handlers' = handlers]_vars

\* C17: no step of a proof submission changes a ticket record (status,
\* claimant, id, channel); all it adds is one mm_proofs row and one
\* 'proof_submitted' audit entry.
C17_ProofLeavesTicket ==
  [][(\/ \E user \in Members, c \in channels \cup {Lobby} : proof_slash(user, c)
      \/ \E r \in BagToSet(handlers) : proof_insert(r) \/ proof_log(r))
     => /\ UNCHANGED <<tickets, ticket_counter, channels, confirmations, views, tasks>>
        /\ proofs' = proofs \/ (Len(proofs') = Len(proofs) + 1
                                /\ SubSeq(proofs', 1, Len(proofs)) = proofs)
        /\ logs' = logs \/ (/\ Len(logs') = Len(logs) + 1
                            /\ SubSeq(logs', 1, Len(logs)) = logs
                            /\ logs'[Len(logs')].action = "proof_submitted")]_vars
\* C17 witness: a proof by 7 has run to its end on the ticket 7 had claimed:
\* the proof row and the audit entry are there, the ticket is open and 7's.
C17_Witness ==
  /\ Len(proofs) = 1 /\ proofs[1].middleman_id = 7
  /\ \E i \in 1..Len(logs) : logs[i].action = "proof_submitted"
  /\ \E c \in channels : BagIn(Outcome("proof", 7, c, "Submitted", NULL), responses)
                         /\ Lookup(c).status = "open" /\ Lookup(c).claimed_by = 7

\* C19: no request is answered NotFound on the channel of an existing ticket
\* (an unreachable store is not reported as a missing ticket).
C19_OutageIsNotNotFound ==
  \A o \in BagToSet(responses) :
     (o.op \in LookupOps /\ o.result = "NotFound") => Lookup(o.channel) = NoTicket

\* the trust tiers among the roles a member holds
HeldTiers(user_role_ids) == {t \in Tiers : TIER_ROLES[t] \in user_role_ids}

\* C13: the ranks are 1..5 in the order trial < middleman < pro < head <
\* owner; a member whose one trust role is of tier a meets a required tier b
\* exactly when rank(a) >= rank(b), a member without trust role meets no tier;
\* and a claim is let through or answered Forbidden accordingly.
C13_MeetsIsRankOrder ==
  /\ \A i \in 1..Len(TierOrder) : TIER_HIERARCHY[TierOrder[i]] = i
  /\ \A m \in UpdatedMembers : \A c \in channels :
       LET req == Lookup(c).tier
           held == HeldTiers(roles[m])
           let_through == \/ \E r \in BagToSet(handlers) : r.user = m /\ r.channel = c
                          \/ \E o \in OutcomesOf(ClaimOps, c, "Claimed") : o.user = m
           forbidden == \E o \in OutcomesOf(ClaimOps, c, "Forbidden") : o.user = m
       IN
       /\ held = {} => ~can_access_tier(roles[m], req) /\ ~let_through
       /\ \A a \in Tiers : held = {a} =>
            /\ can_access_tier(roles[m], req) <=> (TIER_HIERARCHY[a] >= TIER_HIERARCHY[req])
            /\ let_through => TIER_HIERARCHY[a] >= TIER_HIERARCHY[req]
            /\ forbidden => TIER_HIERARCHY[a] < TIER_HIERARCHY[req]
\* C13 witness: meets(head, middleman): member 7, whose one trust role is
\* head, has claimed a middleman ticket.
C13_Witness ==
  /\ HeldTiers(roles[7]) = {"head"}
  /\ \E c \in channels : /\ Lookup(c).tier = "middleman" /\ Lookup(c).claimed_by = 7
                         /\ \E o \in OutcomesOf(ClaimOps, c, "Claimed") : o.user = 7

\* C14: for every set of roles, get_member_tier is the tier of greatest rank
\* among the trust roles in the set, and none exactly when there is none.
C14_HighestTierHeld ==
  \A m \in Members :
    LET held == HeldTiers(roles[m])
        highest == get_member_tier(roles[m])
    IN
    /\ (highest = "none") <=> (held = {})
    /\ held # {} => /\ highest \in held
                    /\ \A t \in held : TIER_HIERARCHY[highest] >= TIER_HIERARCHY[t]
\* C14 witness: member 7 holds trial and head (and not owner) and has been
\* let through to claim a head ticket: the scan returned head, not trial.
C14_Witness ==
  /\ {"trial", "head"} \subseteq HeldTiers(roles[7]) /\ "owner" \notin HeldTiers(roles[7])
  /\ \E c \in channels : /\ Lookup(c).tier = "head"
                         /\ \E o \in OutcomesOf(ClaimOps, c, "Claimed") : o.user = 7


\* the ticket of the scenario, once created
ScenarioTicket == LET k == CHOOSE kind \in Kinds : Len(tickets[kind]) > 0 IN tickets[k][1]
\* the scenario's k-th request has been handled and the next is not yet issued
Handled(k) == handlers = EmptyBag /\ Done = k

\* C15: the sequential end-to-end scenario yields the stated results: after
\* create by 42 (tier middleman) ticket 1 is open and unclaimed; after claim by
\* 7 (pro) 7 is answered Claimed and is the claimant; claim by 8 (head) is
\* answered AlreadyClaimed(7); unclaim by 7 clears the claimant; claim by 8 is
\* then answered Claimed with claimant 8; confirm by 42 reports count 1,
\* confirm by 8 reports count 2 and announces quorum once; close leaves the
\* ticket closed.
C15_EndToEndScenario ==
  /\ Done >= 1 /\ handlers = EmptyBag =>
       /\ Cardinality({k \in Kinds : Len(tickets[k]) > 0}) = 1
       /\ \A k \in Kinds : Len(tickets[k]) <= 1
       /\ ScenarioTicket.ticket_id = 1 /\ ScenarioTicket.requester_id = 42
       /\ ScenarioTicket.username = "9cv" /\ ScenarioTicket.tier = "middleman"
       /\ CountOf({"create"}, ScenarioTicket.channel_id, "Created") = 1
  /\ Handled(1) => ScenarioTicket.status = "open" /\ ScenarioTicket.claimed_by = NULL
  /\ Handled(2) =>
       /\ ScenarioTicket.claimed_by = 7 /\ ScenarioTicket.status = "open"
       /\ {o.user : o \in OutcomesOf(ClaimOps, ScenarioTicket.channel_id, "Claimed")} = {7}
  /\ Handled(3) =>
       /\ ScenarioTicket.claimed_by = 7
       /\ {<<o.user, o.detail>> :
             o \in OutcomesOf(ClaimOps, ScenarioTicket.channel_id, "AlreadyClaimed")} = {<<8, 7>>}
       /\ CountOf(ClaimOps, ScenarioTicket.channel_id, "Claimed") = 1
  /\ Handled(4) =>
       /\ ScenarioTicket.claimed_by = NULL /\ ScenarioTicket.status = "open"
       /\ CountOf({"unclaim"}, ScenarioTicket.channel_id, "Unclaimed") = 1
  /\ Done >= 5 /\ handlers = EmptyBag =>
       /\ ScenarioTicket.claimed_by = 8
       /\ {o.user : o \in OutcomesOf(ClaimOps, ScenarioTicket.channel_id, "Claimed")} = {7, 8}
       /\ CountOf(ClaimOps, ScenarioTicket.channel_id, "Claimed") = 2
  /\ Handled(7) =>
       /\ {<<o.user, o.detail>> :
             o \in OutcomesOf({"confirm"}, ScenarioTicket.channel_id, "Confirmed")} = {<<42, 1>>}
       /\ quorum_msgs = EmptyBag
       /\ Confirmers(confirmations, 1, LookupType(ScenarioTicket.channel_id)) = {42}
  /\ Done >= 8 /\ handlers = EmptyBag =>
       /\ {<<o.user, o.detail>> :
             o \in OutcomesOf({"confirm"}, ScenarioTicket.channel_id, "Confirmed")}
            = {<<42, 1>>, <<8, 2>>}
       /\ quorum_msgs = SetToBag({ScenarioTicket.channel_id})
       /\ Len(confirmations) = 2
  /\ Done <= 8 /\ Done >= 1 /\ handlers = EmptyBag => ScenarioTicket.status = "open"
  /\ Handled(9) =>
       /\ ScenarioTicket.status = "closed" /\ ScenarioTicket.closed_at # NULL
       /\ CountOf({"close"}, ScenarioTicket.channel_id, "Closed") = 1
\* C15 witness: the whole scenario has run, every started task included: the
\* ticket is closed with claimant 8 and two recorded confirmers.
C15_Witness ==
  /\ Handled(9) /\ tasks = EmptyBag
  /\ ScenarioTicket.status = "closed" /\ ScenarioTicket.claimed_by = 8
  /\ Len(confirmations) = 2
  /\ CountOf({"unclaim"}, ScenarioTicket.channel_id, "Unclaimed") = 1


\* outcomes of the store's methods, by what the call was given
ByChannel == {StoreMethod(n, k) : n \in {"claim", "unclaim", "close"}, k \in Kinds}
               \cup {StoreMethod("get", k) \o "_by_channel" : k \in Kinds}
KindOf(op) == CHOOSE k \in Kinds :
                 op \in {StoreMethod(n, k) : n \in {"claim", "unclaim", "close"}}
                          \cup {StoreMethod("get", k) \o "_by_channel",
                                StoreMethod("get", k) \o "_by_id"}

\* C18: every store operation other than create (claim, unclaim, close, get by
\* channel, get by id) that is called with a channel or ticket id without a
\* record fails with NotFoundError: no such call returns.
C18_StoreFailsOnMissing ==
  \A o \in BagToSet(responses) :
    /\ o.op \in ByChannel /\ get_ticket_by_channel(KindOf(o.op), o.channel) = NoTicket
         => o.result = "NotFoundError"
    /\ o.op \in {StoreMethod("get", k) \o "_by_id" : k \in Kinds}
         /\ get_ticket_by_id(KindOf(o.op), o.detail) = NoTicket
         => o.result = "NotFoundError"


\* C20: a failure of channel provisioning during creation leaves no ticket
\* record for the request; in every reachable state each ticket record is bound
\* to a channel that was provisioned for it alone, and the channel of an open
\* ticket exists.
C20_NoOrphanRecord ==
  /\ [](\A k \in Kinds : \A t \in Rows(k) :
          /\ t.channel_id # NULL
          /\ t.channel_id \in 1..(next_channel - 1)
          /\ t.status = "open" => t.channel_id \in channels
          /\ \A k2 \in Kinds : \A t2 \in Rows(k2) :
                t2.channel_id = t.channel_id => k2 = k /\ t2 = t)
  /\ [][\A r \in BagToSet(handlers) :
          on_submit_provision_fails(r) => tickets' = tickets /\ channels' = channels]_vars
\* C20 witness: a creation request has failed at provisioning and has returned,
\* and the store holds no open ticket.
C20_Witness ==
  /\ handlers = EmptyBag
  /\ CountOf({"create"}, Lobby, "Failed") >= 1
  /\ \A k \in Kinds : \A t \in Rows(k) : t.status # "open"


\* C21: a failure of the audit INSERT never propagates: the step in which
\* log_action fails leaves every ticket as it is and gives the actor the
\* answer the successful step gives (none for claim, unclaim, create and
\* close, which have answered before; Submitted for proof), and no operation
\* is answered with an error (other than a creation whose channel was deleted
\* under it, which fails before it starts its audit task).
C21_AuditFailureSwallowed ==
  /\ [](\A o \in BagToSet(responses) :
          o.result = "Failed" => o.op = "create" /\ o.channel \notin channels)
  /\ [][/\ \A e \in BagToSet(tasks) :
             log_action_task_fails(e) =>
               tickets' = tickets /\ responses' = responses /\ handlers' = handlers
        /\ \A r \in BagToSet(handlers) :
             /\ handler_log_fails(r) =>
                  tickets' = tickets /\ responses' = responses /\ handlers' = Finish(r)
             /\ proof_log_fails(r) =>
                  /\ tickets' = tickets /\ proofs' = proofs /\ handlers' = Finish(r)
                  /\ responses' = responses (+)
                        SetToBag({Outcome("proof", r.user, r.channel, "Submitted", NULL)})]_vars
\* C21 witness: every handler and task has run to its end, middleman 8 holds
\* the claim and was answered Claimed, a proof was answered Submitted, and the
\* audit log has neither entry.
C21_Witness ==
  /\ handlers = EmptyBag /\ tasks = EmptyBag
  /\ \E t \in Rows("mm") :
       /\ t.claimed_by = 8
       /\ CountOf(ClaimOps, t.channel_id, "Claimed") >= 1
       /\ CountOf({"proof"}, t.channel_id, "Submitted") = 1
       /\ Len(proofs) = 1
       /\ \A i \in 1..Len(logs) :
            logs[i].ticket_id = t.ticket_id => logs[i].action \in {"created"}


\* C22: the audit entries of a ticket are in the order in which their
\* transitions were accepted by the store.  A ticket is created unclaimed and
\* unclaim_slash writes only after it has read a claimant, so on a ticket with
\* one accepted claim and one accepted unclaim the claim was accepted first:
\* its 'claimed' entry does not follow the 'unclaimed' entry.
C22_AuditOrder ==
  \A k \in Kinds : \A t \in Rows(k) :
    (/\ CountOf(ClaimOps, t.channel_id, "Claimed") = 1
     /\ CountOf({"unclaim"}, t.channel_id, "Unclaimed") = 1)
    => \A i, j \in 1..Len(logs) :
          (/\ i < j
           /\ logs[i].ticket_id = t.ticket_id /\ logs[i].ticket_type = k
           /\ logs[j].ticket_id = t.ticket_id /\ logs[j].ticket_type = k
           /\ logs[i].action = "unclaimed")
          => logs[j].action # "claimed"


\* C23: in every reachable state the claimant of a ticket, if there is one,
\* is not its requester.
C23_ClaimantIsNotRequester ==
  \A k \in Kinds : \A t \in Rows(k) :
    t.claimed_by # NULL => t.claimed_by # t.requester_id

\* C24: ticket identity is unique and stable: no two records of a kind share a
\* ticket id, no two records share a channel id, and no step changes the
\* ticket id or the channel id of a record.
C24_IdentityStable ==
  /\ [](\A k \in Kinds : \A i, j \in 1..Len(tickets[k]) :
          tickets[k][i].ticket_id = tickets[k][j].ticket_id => i = j)
  /\ [](\A k, k2 \in Kinds : \A i \in 1..Len(tickets[k]) : \A j \in 1..Len(tickets[k2]) :
          tickets[k][i].channel_id = tickets[k2][j].channel_id => k = k2 /\ i = j)
  /\ [][\A k \in Kinds : \A i \in 1..Len(tickets[k]) :
          /\ i <= Len(tickets'[k])
          /\ tickets'[k][i].ticket_id = tickets[k][i].ticket_id
          /\ tickets'[k][i].channel_id = tickets[k][i].channel_id]_vars
\* C24 witness: next to the closed ticket a second ticket of the same kind
\* has been created and claimed; the two differ in id and channel.
C24_Witness ==
  \E k \in Kinds :
     /\ Len(tickets[k]) = 2
     /\ tickets[k][1].status = "closed"
     /\ tickets[k][2].claimed_by # NULL
     /\ tickets[k][1].ticket_id # tickets[k][2].ticket_id
     /\ tickets[k][1].channel_id # tickets[k][2].channel_id

\* C25: ticket records are never deleted: the number of records of a kind
\* never decreases, every record stays in the table, and a closed ticket is
\* retrievable by its id.
C25_RecordsNeverDeleted ==
  /\ [](\A k \in Kinds : \A t \in Rows(k) :
          t.status = "closed" => get_ticket_by_id(k, t.ticket_id) = t)
  /\ [][\A k \in Kinds :
          /\ get_all_tickets_count(k)' >= get_all_tickets_count(k)
          /\ \A t \in Rows(k) : get_ticket_by_id(k, t.ticket_id)' # NoTicket]_vars
\* C25 witness: the channel of the closed ticket has been deleted, a further
\* ticket has been created, and the closed ticket is still returned by id.
C25_Witness ==
  \E k \in Kinds :
     /\ Len(tickets[k]) >= 2
     /\ tickets[k][1].status = "closed"
     /\ tickets[k][1].channel_id \notin channels
     /\ get_ticket_by_id(k, tickets[k][1].ticket_id) = tickets[k][1]
     /\ handlers = EmptyBag


\* claim and unclaim handlers that have read the ticket of channel c and have
\* not yet written
InSection(c) ==
  [r \in {x \in BagToSet(handlers) :
            x.op \in ClaimOps \cup {"unclaim"} /\ x.pc = "write" /\ x.channel = c}
     |-> handlers[r]]

\* C26: claim and unclaim handlers of a ticket exclude each other over their
\* read-then-write section: while one is between its read of the claimant and
\* its write, no other has performed its read, so at most one is in the
\* section.
C26_ReadWriteExclusive ==
  \A c \in channels : BagCardinality(InSection(c)) <= 1

\* C28: once a ticket is closed its claimant is frozen: no step changes the
\* claimed_by of a closed ticket.
C28_ClosedClaimantFrozen ==
  [][\A k \in Kinds : \A i \in 1..Len(tickets[k]) :
       tickets[k][i].status = "closed" =>
         tickets'[k][i].claimed_by = tickets[k][i].claimed_by]_vars

\* C30: a confirmation is recorded only while the ticket is open: no step adds
\* a confirmation record or emits the quorum notification for a ticket that
\* is closed.
C30_ConfirmOnlyWhileOpen ==
  [][\A r \in BagToSet(handlers) :
       (confirm_insert(r) /\ get_ticket_by_channel(r.ticket_type, r.channel).status = "closed")
         => confirmations' = confirmations /\ quorum_msgs' = quorum_msgs]_vars


\* C27: an unclaim by a member who is no admin never clears the claim of
\* another member: when the UPDATE of such an unclaim runs, the claimant it
\* removes, if there is one, is the member who asked.
C27_UnclaimClearsOwnClaim ==
  [][\A r \in BagToSet(handlers) :
       (unclaim_write(r) /\ ~is_admin(r.user))
         => get_ticket_by_channel(r.ticket_type, r.channel).claimed_by \in {NULL, r.user}]_vars

\* C29: the "both confirmed" notification is emitted only for a ticket that
\* at least 2 distinct actors have confirmed: once every confirmation request
\* has been handled, a ticket for which the notification was emitted has at
\* least 2 distinct confirmers on record.
C29_QuorumNeedsTwoConfirmers ==
  \A v \in 1..Len(views) :
    (handlers = EmptyBag /\ BagIn(views[v].channel, quorum_msgs))
      => Cardinality(Confirmers(confirmations, views[v].ticket_id, views[v].ticket_type))
           >= Quorum


\* the answer that tells an actor the transition was accepted, and the
\* handlers that give it
AuditActions == {"created", "claimed", "unclaimed", "proof_submitted", "closed"}
AcceptedAs(action) ==
  CASE action = "created" -> [ops |-> {"create"}, result |-> "Created"]
    [] action = "claimed" -> [ops |-> ClaimOps, result |-> "Claimed"]
    [] action = "unclaimed" -> [ops |-> {"unclaim"}, result |-> "Unclaimed"]
    [] action = "proof_submitted" -> [ops |-> {"proof"}, result |-> "Submitted"]
    [] action = "closed" -> [ops |-> {"close"}, result |-> "Closed"]
\* accepted transitions `action` of member u on the ticket of channel c
Accepted(c, action, u) ==
  LET os == {o \in OutcomesOf(AcceptedAs(action).ops, c, AcceptedAs(action).result) :
                o.user = u}
  IN BagCardinality([o \in os |-> responses[o]])
\* audit entries `action` of member u for ticket t of kind k
Logged(k, t, action, u) ==
  Cardinality({i \in 1..Len(logs) : logs[i] = LogRow(t.ticket_id, k, action, u)})

\* C31: with the store available and fair scheduling, every accepted create,
\* claim, unclaim, proof and close gets exactly one audit entry with its
\* action label and its actor: there are never more entries than accepted
\* transitions (none for a rejected request), and eventually, for good, there
\* are exactly as many.
C31_EveryTransitionAudited ==
  /\ [](\A k \in Kinds : \A t \in Rows(k) : \A a \in AuditActions : \A u \in Members :
          Logged(k, t, a, u) <= Accepted(t.channel_id, a, u))
  /\ <>[](\A k \in Kinds : \A t \in Rows(k) : \A a \in AuditActions : \A u \in Members :
          Logged(k, t, a, u) = Accepted(t.channel_id, a, u))


\* C32: a confirmation prompt is posted only for a member who is an admin or
\* the claimant of the ticket at that moment; for anyone else the request
\* ends with no new prompt.
C32_ConfirmStartedByClaimantOrAdmin ==
  [][\A r \in BagToSet(handlers) :
       (confirm_start(r) /\ Lookup(r.channel) # NoTicket
          /\ ~(is_admin(r.user) \/ Lookup(r.channel).claimed_by = r.user))
       => views' = views]_vars


\* C33: an actor is in the confirmer set of a prompt only if a confirmation
\* record of that actor is stored for the ticket, or the INSERT of the
\* actor's press is still to run; so an actor whose INSERT failed is not
\* answered 'already confirmed' on a retry.
C33_ConfirmerSetIsStored ==
  \A v \in 1..Len(views) : \A u \in views[v].confirmations :
    \/ u \in Confirmers(confirmations, views[v].ticket_id, views[v].ticket_type)
    \/ \E r \in BagToSet(handlers) :
          r.op = "confirm" /\ r.pc = "insert" /\ r.user = u /\ r.arg = <<v>>


\* C34: every channel that a creation has provisioned is bound to a ticket
\* record, or the creation is still before its INSERT: no channel is left
\* without record when the INSERT fails.
C34_NoOrphanChannel ==
  \A c \in channels :
    \/ Lookup(c) # NoTicket
    \/ \E r \in BagToSet(handlers) : r.op = "create" /\ r.pc = "insert" /\ r.channel = c


\* C35: a ticket has at most one proof record, and a proof record is added
\* only for the member who is the claimant of the ticket: a second /proof,
\* or a /proof of a trust-role holder who is not the claimant, adds none.
C35_OneProofByClaimant ==
  /\ [](\A i \in 1..Len(proofs) : \A j \in 1..Len(proofs) :
          (proofs[i].ticket_id = proofs[j].ticket_id
             /\ proofs[i].ticket_type = proofs[j].ticket_type) => i = j)
  /\ [][\A r \in BagToSet(handlers) :
          (proof_insert(r)
             /\ get_ticket_by_channel(r.ticket_type, r.channel).claimed_by # r.user)
          => proofs' = proofs]_vars


\* the UPDATE statements that the handlers address to the ticket of channel c
TicketWrites(c) ==
  [name : {"claim"}, kind : {LookupType(c)}, c : {c}, user_id : Members]
    \cup [name : {"unclaim", "close"}, kind : {LookupType(c)}, c : {c}, user_id : {NULL}]
\* the tables after the statement w
WriteOf(tk, w) ==
  [tk EXCEPT ![w.kind] = IF w.name = "claim" THEN claim_ticket(@, w.c, w.user_id)
                         ELSE IF w.name = "unclaim" THEN unclaim_ticket(@, w.c)
                         ELSE close_ticket(@, w.c)]

\* C36: the UPDATE of a claim, an unclaim or a close addressed to the channel
\* of one ticket changes no field of a ticket bound to another channel and
\* adds or removes no row; and two such statements addressed to different
\* channels give the same tables in either order.
C36_OtherTicketsUnchanged ==
  /\ [][\A r \in BagToSet(handlers) :
          (claim_write(r) \/ unclaim_write(r) \/ close_write(r))
          => \A k \in Kinds :
               /\ Len(tickets'[k]) = Len(tickets[k])
               /\ \A i \in 1..Len(tickets[k]) :
                     tickets[k][i].channel_id # r.channel => tickets'[k][i] = tickets[k][i]]_vars
  /\ [](\A c1 \in channels : \A c2 \in channels \ {c1} :
          \A w1 \in TicketWrites(c1) : \A w2 \in TicketWrites(c2) :
            WriteOf(WriteOf(tickets, w1), w2) = WriteOf(WriteOf(tickets, w2), w1))
\* C36 witness: the ticket of channel 2 has been claimed by 8 and the ticket
\* of channel 1 has been closed; ticket 1 is still claimed by 7 and ticket 2
\* is still open.
C36_Witness ==
  /\ handlers = EmptyBag
  /\ OutcomesOf(ClaimOps, 2, "Claimed") # {} /\ OutcomesOf({"close"}, 1, "Closed") # {}
  /\ Lookup(2).claimed_by = 8 /\ Lookup(2).status = "open"
  /\ Lookup(1).claimed_by = 7 /\ Lookup(1).status = "closed"


\* C37: a /remove never takes channel access from the requester or from the
\* claimant of the ticket; a /remove by a member who at that moment is neither
\* the claimant nor the requester nor holder of a trust role, or a /remove
\* aimed at the requester or the claimant, is rejected: it leaves nothing
\* pending that changes a permission or logs 'user_removed'.
C37_RemoveGuarded ==
  /\ [][\A r \in BagToSet(handlers) :
          remove_apply(r) =>
            LET ticket == get_ticket_by_channel(r.ticket_type, r.channel) IN
            \A m \in {ticket.requester_id, ticket.claimed_by} \ {NULL} :
              permissions_for(overwrites, roles, m, r.channel)
                => permissions_for(overwrites', roles', m, r.channel)]_vars
  /\ [][\A user \in Members, target \in Members, c \in channels :
          LET ticket == Lookup(c) IN
          (/\ remove_slash(user, target, c)
           /\ ticket # NoTicket
           /\ \/ ~(\/ ticket.claimed_by = user \/ ticket.requester_id = user
                    \/ HoldsTrustRole(roles[user]))
              \/ target \in {ticket.requester_id, ticket.claimed_by})
          => UNCHANGED <<handlers, overwrites, tasks>>]_vars


\* what an await gave that safe_discord_request answers with another attempt
Retried(outcome) ==
  \/ outcome.kind = "timeout"
  \/ outcome.kind = "http" /\ (outcome.status = 429 \/ outcome.status >= 500)
\* the calls of safe_discord_request that have ended, and those under way
EndedCalls == {o \in BagToSet(responses) : o.op = "safe_discord_request"}
OpenCalls == {r \in BagToSet(handlers) : r.op = "safe_discord_request"}

====
